---- MODULE Spec2Model ----
(***************************************************************************)
(* Model of medley: the streaming pull parser (src/src/ebnf/parser.rs)     *)
(* with its frame stack, sliding buffer, line tracker and event queue,     *)
(* driven by a caller that calls next_event repeatedly; Grammar::validate  *)
(* (src/src/ebnf/grammar.rs); the AST layer (src/src/ast.rs,               *)
(* src/src/ast/): AstBuilder, Ast::collect_terminals and trait Visitor;    *)
(* and the recursive parser of src/src/ebnf/runtime.rs (parse_iter_str).   *)
(***************************************************************************)
EXTENDS Integers, Sequences, FiniteSets, TLC

(***************************************************************************)
(* Bounds of the model.                                                    *)
(***************************************************************************)
\* longest input drawn from Alphabet
MaxInputLen == 3
\* the reader hands out chunks of 1..MaxChunk bytes per fill_buf
MaxChunk == 3
\* longest run of one matching character given to a repetition
MaxRunLen == 6
\* number of values next_event may return in one behaviour
MaxEvents == 9
\* number of AstBuilder calls made before build
MaxCalls == 4

(***************************************************************************)
(* Program constants of ensure_buffer, scaled down in proportion (2 : 1)   *)
(* so that window slides happen on the inputs of the model.                *)
(***************************************************************************)
MAX_BUFFER_SIZE == 2
MIN_SLIDE_SIZE == 1

(***************************************************************************)
(* Characters.  A char is a one-character string; Ord is its code point.   *)
(***************************************************************************)
NL == "\n"
Alphabet == {"a", "b", NL}
Ord(ch) ==
    CASE ch = NL  -> 10
      [] ch = "a" -> 97
      [] ch = "b" -> 98
      [] ch = "c" -> 99
      [] ch = "f" -> 102
      [] ch = "o" -> 111
      [] ch = "r" -> 114
      [] ch = "z" -> 122

Last(s) == s[Len(s)]
Front(s) == SubSeq(s, 1, Len(s) - 1)
SetMin(S) == CHOOSE m \in S : \A x \in S : m <= x

(***************************************************************************)
(* Grammar IR (ir.rs): Prod, RepeatQuant, CharClass, Rule, Grammar.        *)
(* Option<usize> is a set with at most one element.                        *)
(***************************************************************************)
PSeq(items) == [type |-> "Seq", items |-> items]
PAlt(alts) == [type |-> "Alt", alts |-> alts]
PGroup(inner) == [type |-> "Group", inner |-> inner]
PRepeat(item, min, max) ==
    [type |-> "Repeat", item |-> item, quant |-> [min |-> min, max |-> max]]
PStr(text) == [type |-> "Terminal", kind |-> [kind |-> "Str", text |-> text]]
PChar(ch) == [type |-> "Terminal", kind |-> [kind |-> "Char", ch |-> ch]]
PClass(negated, chars, ranges) ==
    [type |-> "Class",
     class |-> [negated |-> negated, chars |-> chars, ranges |-> ranges]]
PRef(name) == [type |-> "Ref", name |-> name]
Rule(name, production) == [name |-> name, production |-> production]

\* quantifiers of the grammar surface: ? * +
Opt(item) == PRepeat(item, 0, {1})
Star(item) == PRepeat(item, 0, {})
Plus(item) == PRepeat(item, 1, {})


\* start = "a" ['b']
G_AOptB == [rules |-> <<Rule("start", PSeq(<<PStr(<<"a">>), Opt(PChar("b"))>>))>>]
G_StrA == [rules |-> <<Rule("start", PStr(<<"a">>))>>]
G_RefClass ==
    [rules |-> <<Rule("start", PRef("digit")),
                 Rule("digit", PClass(FALSE, <<"a">>, <<>>))>>]
G_RefRepeat ==
    [rules |-> <<Rule("start", PSeq(<<PRef("digit"), Star(PRef("digit"))>>)),
                 Rule("digit", PClass(FALSE, <<>>, <<<<"a", "b">>>>))>>]
G_EmptySeq == [rules |-> <<Rule("start", PSeq(<<>>))>>]
G_NullableRepeats ==
    [rules |-> <<Rule("start", PSeq(<<Star(Star(PSeq(<<>>))), Plus(PSeq(<<>>))>>))>>]
G_ABThenAorB ==
    [rules |-> <<Rule("start",
        PSeq(<<PStr(<<"a", "b">>), PAlt(<<PStr(<<"a">>), PStr(<<"b">>)>>)>>))>>]
G_EmptyAlt == [rules |-> <<Rule("start", PAlt(<<>>))>>]
G_NoRules == [rules |-> <<>>]

Grammars ==
    <<
      \* start = "foo" | "bar" | "baz"
      [rules |-> <<Rule("start", PAlt(<<PStr(<<"f", "o", "o">>), PStr(<<"b", "a", "r">>),
                                        PStr(<<"b", "a", "z">>)>>))>>],
      \* start = "a" | "b"
      [rules |-> <<Rule("start", PAlt(<<PStr(<<"a">>), PStr(<<"b">>)>>))>>],
      \* start = "ab" | "a"
      [rules |-> <<Rule("start", PAlt(<<PStr(<<"a", "b">>), PStr(<<"a">>)>>))>>],
      \* start = "a" "b" | "b"
      [rules |-> <<Rule("start", PAlt(<<PSeq(<<PStr(<<"a">>), PStr(<<"b">>)>>), PStr(<<"b">>)>>))>>],
      \* start = ('a' | 'b') "a"
      [rules |-> <<Rule("start", PSeq(<<PGroup(PAlt(<<PChar("a"), PChar("b")>>)), PStr(<<"a">>)>>))>>],
      \* start = "a" "b"
      [rules |-> <<Rule("start", PSeq(<<PStr(<<"a">>), PStr(<<"b">>)>>))>>],
      \* start = "ab" "a"
      [rules |-> <<Rule("start", PSeq(<<PStr(<<"a", "b">>), PStr(<<"a">>)>>))>>],
      \* start = "a" "b" "a"
      [rules |-> <<Rule("start", PSeq(<<PStr(<<"a">>), PStr(<<"b">>), PStr(<<"a">>)>>))>>],
      \* start = "a\\n" "b"
      [rules |-> <<Rule("start", PSeq(<<PStr(<<"a", NL>>), PStr(<<"b">>)>>))>>],
      \* start = "a" "" "b"
      [rules |-> <<Rule("start", PSeq(<<PStr(<<"a">>), PStr(<<>>), PStr(<<"b">>)>>))>>],
      G_StrA,
      \* start = {"a"}
      [rules |-> <<Rule("start", Star(PStr(<<"a">>)))>>],
      \* start = "a"+
      [rules |-> <<Rule("start", Plus(PStr(<<"a">>)))>>],
      G_AOptB,
      \* start = [a-z]+
      [rules |-> <<Rule("start", Plus(PClass(FALSE, <<>>, <<<<"a", "z">>>>)))>>],
      \* start = [^b]+
      [rules |-> <<Rule("start", Plus(PClass(TRUE, <<"b">>, <<>>)))>>],
      G_RefClass,
      G_RefRepeat,
      G_EmptySeq,
      \* start = "a" ()+
      [rules |-> <<Rule("start", PSeq(<<PStr(<<"a">>), Plus(PSeq(<<>>))>>))>>],
      G_NullableRepeats,
      G_ABThenAorB,
      \* start = "a" {"a" "b"}
      [rules |-> <<Rule("start",
          PSeq(<<PStr(<<"a">>), Star(PSeq(<<PStr(<<"a">>), PStr(<<"b">>)>>))>>))>>],
      G_EmptyAlt,
      G_NoRules>>

\* Grammar::get_rule: the first rule of that name
get_rule(g, name) ==
    LET hits == {i \in 1..Len(g.rules) : g.rules[i].name = name}
    IN IF hits = {} THEN <<>> ELSE <<g.rules[SetMin(hits)]>>

(***************************************************************************)
(* Inputs: every string over Alphabet up to MaxInputLen, the literals of   *)
(* the alternation grammar, and runs of one character up to MaxRunLen that *)
(* outgrow the window.                                                     *)
(***************************************************************************)
RECURSIVE Strings(_)
Strings(n) ==
    IF n = 0 THEN {<<>>}
    ELSE LET shorter == Strings(n - 1)
         IN shorter \cup {Append(s, c) : s \in {t \in shorter : Len(t) = n - 1}, c \in Alphabet}
Runs == {[i \in 1..n |-> "a"] : n \in (MaxInputLen + 1)..MaxRunLen}
Inputs ==
    Strings(MaxInputLen) \cup {<<"f", "o", "o">>, <<"b", "a", "r">>, <<"b", "a", "z">>} \cup Runs

(***************************************************************************)
(* LineColumnTracker (parser.rs 51-86).                                    *)
(***************************************************************************)
RECURSIVE NewlineStarts(_, _, _)
\* the offsets base + i + 1 of the bytes that follow a newline of chunk
NewlineStarts(chunk_, base, i) ==
    IF i > Len(chunk_) THEN <<>>
    ELSE (IF chunk_[i] = NL THEN <<base + i>> ELSE <<>>)
         \o NewlineStarts(chunk_, base, i + 1)

LT_new(text) ==
    [positions |-> <<0>> \o NewlineStarts(text, 0, 1), input_len |-> Len(text)]

\* an extend that counts the offsets of a chunk from the start of the chunk
LT_extend_ForgetsBase(lt, chunk_) ==
    [positions |-> lt.positions \o NewlineStarts(chunk_, 0, 1),
     input_len |-> lt.input_len + Len(chunk_)]

LT_extend(lt, chunk_) ==
    [positions |-> lt.positions \o NewlineStarts(chunk_, lt.input_len, 1),
     input_len |-> lt.input_len + Len(chunk_)]

\* a line_column that takes the insertion point also on an exact hit
line_column_InsertionPointOnly(lt, position) ==
    LET line == Cardinality({i \in 1..Len(lt.positions) : lt.positions[i] < position})
        actual_line == IF line = 0 THEN 1 ELSE line
        line_start == IF line = 0 THEN 0 ELSE lt.positions[line]
    IN [line |-> actual_line, column |-> (position - line_start) + 1]

\* binary_search: Ok(idx) on an exact hit, Err(insertion point) otherwise
line_column(lt, position) ==
    LET hits == {i \in 1..Len(lt.positions) : lt.positions[i] = position}
        line == IF hits # {}
                THEN (SetMin(hits) - 1) + 1
                ELSE Cardinality({i \in 1..Len(lt.positions) : lt.positions[i] < position})
        actual_line == IF line = 0 THEN 1 ELSE line
        line_start == IF line = 0 THEN 0 ELSE lt.positions[line]
    IN [line |-> actual_line, column |-> (position - line_start) + 1]

span_with_position(lt, start, end) ==
    LET lc == line_column(lt, start)
    IN [start |-> start, end |-> end, line |-> lc.line, column |-> lc.column]

(***************************************************************************)
(* Frames (parser.rs 90-105, 437-449).  The frame stack is a sequence      *)
(* whose last element is the top.                                          *)
(***************************************************************************)
RefFrame(name, prod, stage) ==
    [frame |-> "Ref", name |-> name, prod |-> prod, stage |-> stage]
SeqFrame(items, idx) == [frame |-> "Seq", items |-> items, idx |-> idx]
AltFrame(alts, idx, saved_pos) ==
    [frame |-> "Alt", alts |-> alts, idx |-> idx, saved_pos |-> saved_pos]
RepeatFrame(item, quant, count, saved_pos, trying) ==
    [frame |-> "Repeat", item |-> item, quant |-> quant, count |-> count,
     saved_pos |-> saved_pos, trying |-> trying]

from_prod(prod) ==
    CASE prod.type = "Seq" -> SeqFrame(prod.items, 0)
      [] prod.type = "Alt" -> AltFrame(prod.alts, 0, 0)
      [] prod.type = "Group" -> [frame |-> "Group", inner |-> prod.inner]
      [] prod.type = "Repeat" -> RepeatFrame(prod.item, prod.quant, 0, 0, TRUE)
      [] prod.type = "Terminal" -> [frame |-> "Terminal", kind |-> prod.kind]
      [] prod.type = "Class" -> [frame |-> "Class", class |-> prod.class]
      [] prod.type = "Ref" -> RefFrame(prod.name, prod, "Start")

(***************************************************************************)
(* Events (parser.rs 10-47).  NoneEv stands for next_event returning None; *)
(* an Option is a set with at most one element.                            *)
(***************************************************************************)
StartEv(rule) == [type |-> "Start", rule |-> rule]
EndEv(rule) == [type |-> "End", rule |-> rule]
TokenEv(kind, text, span) ==
    [type |-> "Token", kind |-> kind, text |-> text, span |-> span]
ErrorEv(message, position, rule_context) ==
    [type |-> "Error", message |-> message, position |-> position,
     rule_context |-> rule_context]
NoneEv == [type |-> "None"]

(***************************************************************************)
(* AST nodes (ast/node.rs 7-22, 82-89), Span::new (span.rs 16-23) and the  *)
(* fresh AstBuilder (ast/builder.rs 17-24).  A Vec is a sequence whose     *)
(* last element is the top; an Option is a set with at most one element.   *)
(***************************************************************************)
Span_new(start, end) == [start |-> start, end |-> end, line |-> {}, column |-> {}]
Terminal(value, span) == [node |-> "Terminal", value |-> value, span |-> span]
Sequence(nodes, span) == [node |-> "Sequence", nodes |-> nodes, span |-> span]
Alternation(nodes, span) == [node |-> "Alternation", nodes |-> nodes, span |-> span]
Repetition(nodes, span) == [node |-> "Repetition", nodes |-> nodes, span |-> span]
AstRule(name, inner, span) == [node |-> "Rule", name |-> name, inner |-> inner, span |-> span]
AstBuilder_new ==
    [stack |-> << <<>> >>, current_span_stack |-> <<>>, rule_stack |-> <<>>,
     metadata |-> [input_length |-> 0, token_count |-> 0, success |-> FALSE]]

(***************************************************************************)
(* State of Parser<R> (parser.rs 111-122) and of its caller.               *)
(***************************************************************************)
VARIABLES
    grammar,        \* the borrowed Grammar
    source,         \* all bytes the reader will deliver
    chunk,          \* size of the reader's internal buffer (bytes per fill_buf)
    rd,             \* bytes of source the reader has handed out
    input,          \* Parser::input, the window buffer
    pos,            \* Parser::pos, cursor relative to the window
    window_start,   \* Parser::window_start
    frames,         \* Parser::frames
    events,         \* Parser::events
    line_tracker,   \* Parser::line_tracker
    finished,       \* Parser::finished
    eof,            \* Parser::eof
    pc,             \* where next_event stands: "idle" between calls,
                    \* "after_step" after step(), "loop" at the loop head
    out,            \* what next_event has returned so far, in order
    panicked,       \* a step panicked (index out of bounds, underflow)
    errors,         \* the Vec<String> Grammar::validate returned
    validated,      \* validate has been called on grammar
    builder,        \* the AstBuilder a caller drives
    calls,          \* the AstBuilder calls made so far, with what they returned
    built,          \* what AstBuilder::build returned, once it has been called
    runtime         \* the recursive Parser of runtime.rs, once it has been made

vars == <<grammar, source, chunk, rd, input, pos, window_start, frames, events,
          line_tracker, finished, eof, pc, out, panicked, errors, validated,
          builder, calls, built, runtime>>

\* Parser::new (parser.rs 126-155)
Init ==
    /\ grammar \in {Grammars[i] : i \in 1..Len(Grammars)}
    /\ source \in Inputs
    /\ chunk \in 1..MaxChunk
    /\ rd = 0
    /\ input = <<>>
    /\ pos = 0
    /\ window_start = 0
    /\ line_tracker = LT_new(<<>>)
    /\ eof = FALSE
    /\ IF grammar.rules # <<>>
       THEN /\ frames = <<RefFrame(grammar.rules[1].name, grammar.rules[1].production, "Start")>>
            /\ finished = FALSE
            /\ events = <<>>
       ELSE /\ frames = <<>>
            /\ finished = TRUE
            /\ events = <<ErrorEv("grammar has no rules", 0, {})>>
    /\ pc = "idle"
    /\ out = <<>>
    /\ panicked = FALSE
    /\ errors = <<>>
    /\ validated = FALSE
    /\ builder = AstBuilder_new
    /\ calls = <<>>
    /\ built = <<>>
    /\ runtime = <<>>

(***************************************************************************)
(* Parser::fail (parser.rs 344-359): the rule context is the topmost Ref   *)
(* frame whose stage is not End, else the name of the first rule.          *)
(***************************************************************************)
fail_ctx(fr) ==
    LET open == {i \in 1..Len(fr) : fr[i].frame = "Ref" /\ fr[i].stage # "End"}
    IN IF open # {}
       THEN fr[CHOOSE i \in open : \A j \in open : j <= i].name
       ELSE IF grammar.rules # <<>> THEN grammar.rules[1].name ELSE ""

\* a fail that reports the error and leaves finished as it was
fail_KeepsRunning(fin, evs, fr, abs_pos, msg) ==
    IF fin
    THEN [finished |-> fin, events |-> evs]
    ELSE [finished |-> fin,
          events |-> Append(evs, ErrorEv("failed to match: " \o msg, abs_pos, {fail_ctx(fr)}))]

\* a fail that reports the error without a rule context
fail_NoContext(fin, evs, fr, abs_pos, msg) ==
    IF fin
    THEN [finished |-> fin, events |-> evs]
    ELSE [finished |-> TRUE,
          events |-> Append(evs, ErrorEv("failed to match: " \o msg, abs_pos, {}))]

\* a fail that queues its Error twice
fail_QueuesTwice(fin, evs, fr, abs_pos, msg) ==
    IF fin
    THEN [finished |-> fin, events |-> evs]
    ELSE LET err == ErrorEv("failed to match: " \o msg, abs_pos, {fail_ctx(fr)})
         IN [finished |-> TRUE, events |-> evs \o <<err, err>>]

\* the Parser fields fail writes, given the frame stack, the absolute cursor
\* position and the message
fail(fin, evs, fr, abs_pos, msg) ==
    IF fin
    THEN [finished |-> fin, events |-> evs]
    ELSE [finished |-> TRUE,
          events |-> Append(evs, ErrorEv("failed to match: " \o msg, abs_pos, {fail_ctx(fr)}))]

(***************************************************************************)
(* Parser::ensure_buffer (parser.rs 370-419) on the record                 *)
(* [input, pos, window_start, frames, line_tracker, rd, chunk, eof,        *)
(* panic],                                                                 *)
(* rd and chunk being the reader: the bytes it has handed out and the      *)
(* size of its buffer.                                                     *)
(***************************************************************************)
HasSavedPos(f) == f.frame \in {"Alt", "Repeat"}

\* an ensure_buffer that never discards a byte
slide_Never(s) == s

\* a slide that drains the buffer and leaves window_start where it was
slide_KeepsWindowStart(s) ==
    IF Len(s.input) > MAX_BUFFER_SIZE /\ s.pos > MIN_SLIDE_SIZE
    THEN [s EXCEPT !.input = SubSeq(s.input, s.pos + 1, Len(s.input)),
                   !.pos = 0,
                   !.frames = [i \in 1..Len(s.frames) |->
                                 IF HasSavedPos(s.frames[i])
                                 THEN [s.frames[i] EXCEPT !.saved_pos = 0]
                                 ELSE s.frames[i]]]
    ELSE s

\* a slide that drains the buffer and leaves the cursor where it was
slide_KeepsPos(s) ==
    IF Len(s.input) > MAX_BUFFER_SIZE /\ s.pos > MIN_SLIDE_SIZE
    THEN [s EXCEPT !.input = SubSeq(s.input, s.pos + 1, Len(s.input)),
                   !.window_start = @ + s.pos]
    ELSE s

\* a slide that leaves the saved positions of the frames as they were
slide_KeepsSavedPos(s) ==
    IF Len(s.input) > MAX_BUFFER_SIZE /\ s.pos > MIN_SLIDE_SIZE
    THEN LET saved == {s.frames[i].saved_pos :
                          i \in {j \in 1..Len(s.frames) : HasSavedPos(s.frames[j])}}
             min_pos == IF saved = {} THEN s.pos ELSE SetMin(saved)
         IN [s EXCEPT !.input = SubSeq(s.input, min_pos + 1, Len(s.input)),
                      !.window_start = @ + min_pos,
                      !.pos = @ - min_pos]
    ELSE s

\* a slide that drains up to the cursor whatever the frames have saved
slide_DrainsToPos(s) ==
    IF Len(s.input) > MAX_BUFFER_SIZE /\ s.pos > MIN_SLIDE_SIZE
    THEN [s EXCEPT !.input = SubSeq(s.input, s.pos + 1, Len(s.input)),
                   !.window_start = @ + s.pos,
                   !.pos = 0,
                   !.frames = [i \in 1..Len(s.frames) |->
                                 IF HasSavedPos(s.frames[i])
                                 THEN [s.frames[i] EXCEPT
                                         !.saved_pos = IF @ >= s.pos THEN @ - s.pos ELSE 0]
                                 ELSE s.frames[i]]]
    ELSE s

\* lines 375-401: the window slide
slide(s) ==
    IF Len(s.input) > MAX_BUFFER_SIZE /\ s.pos > MIN_SLIDE_SIZE
    THEN LET saved == {s.frames[i].saved_pos :
                          i \in {j \in 1..Len(s.frames) : HasSavedPos(s.frames[j])}}
             min_pos == IF saved = {} THEN s.pos ELSE SetMin(saved)
         IN IF min_pos > 0
            THEN IF min_pos > Len(s.input) \/ min_pos > s.pos
                 THEN [s EXCEPT !.panic = TRUE]
                 ELSE [s EXCEPT
                         !.input = SubSeq(s.input, min_pos + 1, Len(s.input)),
                         !.window_start = @ + min_pos,
                         !.pos = @ - min_pos,
                         !.frames = [i \in 1..Len(s.frames) |->
                                       IF HasSavedPos(s.frames[i])
                                       THEN [s.frames[i] EXCEPT !.saved_pos = @ - min_pos]
                                       ELSE s.frames[i]]]
            ELSE s
    ELSE s

\* self.input.len().saturating_sub(self.pos)
available(s) == IF Len(s.input) >= s.pos THEN Len(s.input) - s.pos ELSE 0

\* BufRead::fill_buf of a reader whose buffer holds capacity bytes
fill_buf(capacity, offset) ==
    SubSeq(source, offset + 1,
           IF offset + capacity < Len(source) THEN offset + capacity ELSE Len(source))

\* a refill that asks the reader once, however many bytes are needed
refill_AsksOnce(s, needed_bytes) ==
    IF available(s) >= needed_bytes THEN s
    ELSE LET buf == fill_buf(s.chunk, s.rd)
         IN IF buf = <<>>
            THEN [s EXCEPT !.eof = TRUE]
            ELSE [s EXCEPT !.line_tracker = LT_extend(@, buf),
                           !.input = @ \o buf,
                           !.rd = @ + Len(buf)]

RECURSIVE refill(_, _)
\* lines 405-417: the refill loop
refill(s, needed_bytes) ==
    IF available(s) >= needed_bytes THEN s
    ELSE LET buf == fill_buf(s.chunk, s.rd)
         IN IF buf = <<>>
            THEN [s EXCEPT !.eof = TRUE]
            ELSE refill([s EXCEPT !.line_tracker = LT_extend(@, buf),
                                  !.input = @ \o buf,
                                  !.rd = @ + Len(buf)], needed_bytes)

ensure_buffer(s, needed_bytes) ==
    LET t == slide(s)
    IN IF t.panic \/ available(t) >= needed_bytes \/ t.eof THEN t
       ELSE refill(t, needed_bytes)

\* the buffer-related fields of self, with the popped frame stack fr
BufState(fr) ==
    [input |-> input, pos |-> pos, window_start |-> window_start, frames |-> fr,
     line_tracker |-> line_tracker, rd |-> rd, chunk |-> chunk, eof |-> eof,
     panic |-> FALSE]

(***************************************************************************)
(* Parser::step (parser.rs 189-342), one action per kind of the popped     *)
(* frame.  A step runs at the head of the loop of next_event: entered      *)
(* from a call that found the queue empty and the parser unfinished, or    *)
(* from the previous iteration.                                            *)
(***************************************************************************)
CanStep ==
    /\ ~panicked
    /\ Len(out) < MaxEvents
    /\ pc \in {"idle", "loop"}
    /\ events = <<>>
    /\ ~finished

\* the step leaves the buffer alone: new frame stack, queue, cursor, finished
StepTo(fr, evs, p, fin) ==
    /\ frames' = fr
    /\ events' = evs
    /\ pos' = p
    /\ finished' = fin
    /\ pc' = "after_step"
    /\ UNCHANGED <<runtime, builder, calls, built, errors, validated, grammar, source, chunk, rd, input, window_start, line_tracker,
                   eof, out, panicked>>

\* the step went through ensure_buffer, which left the record b
StepWithBuffer(b, evs, p, fin) ==
    /\ input' = b.input
    /\ window_start' = b.window_start
    /\ frames' = b.frames
    /\ line_tracker' = b.line_tracker
    /\ rd' = b.rd
    /\ eof' = b.eof
    /\ events' = evs
    /\ pos' = p
    /\ finished' = fin
    /\ pc' = "after_step"
    /\ UNCHANGED <<runtime, builder, calls, built, errors, validated, grammar, source, chunk, out, panicked>>

Panic ==
    /\ panicked' = TRUE
    /\ UNCHANGED <<runtime, builder, calls, built, errors, validated, grammar, source, chunk, rd, input, pos, window_start, frames,
                   events, line_tracker, finished, eof, pc, out>>

\* a step that demands the end of the input once the frame stack is empty
StepEmpty_RequiresEof ==
    /\ CanStep
    /\ frames = <<>>
    /\ IF window_start + pos < Len(source)
       THEN LET r == fail(finished, events, frames, window_start + pos, "trailing input")
            IN StepTo(frames, r.events, pos, r.finished)
       ELSE StepTo(frames, events, pos, TRUE)

\* lines 190-196: the frame stack is empty
StepEmpty ==
    /\ CanStep
    /\ frames = <<>>
    /\ StepTo(frames, events, pos, TRUE)

\* a Ref frame whose End stage is never pushed
ref_step_SkipsEnd(f, rest, evs) ==
    CASE f.stage = "Start" ->
           [frames |-> rest \o <<RefFrame(f.name, f.prod, "Parsing"), from_prod(f.prod)>>,
            events |-> Append(evs, StartEv(f.name))]
      [] f.stage = "Parsing" -> [frames |-> rest, events |-> evs]
      [] f.stage = "End" -> [frames |-> rest, events |-> Append(evs, EndEv(f.name))]

\* lines 199-215: the frame stack and the queue after the Ref frame f, popped
\* from above rest, has been stepped
ref_step(f, rest, evs) ==
    CASE f.stage = "Start" ->
           [frames |-> rest \o <<RefFrame(f.name, f.prod, "Parsing"), from_prod(f.prod)>>,
            events |-> Append(evs, StartEv(f.name))]
      [] f.stage = "Parsing" ->
           [frames |-> Append(rest, RefFrame(f.name, f.prod, "End")), events |-> evs]
      [] f.stage = "End" -> [frames |-> rest, events |-> Append(evs, EndEv(f.name))]

StepRef ==
    /\ CanStep
    /\ frames # <<>>
    /\ Last(frames).frame = "Ref"
    /\ LET r == ref_step(Last(frames), Front(frames), events)
       IN StepTo(r.frames, r.events, pos, finished)

\* lines 217-223
StepSeq ==
    /\ CanStep
    /\ frames # <<>>
    /\ Last(frames).frame = "Seq"
    /\ LET f == Last(frames)
           rest == Front(frames)
       IN IF f.idx < Len(f.items)
          THEN StepTo(rest \o <<SeqFrame(f.items, f.idx + 1), from_prod(f.items[f.idx + 1])>>,
                      events, pos, finished)
          ELSE StepTo(rest, events, pos, finished)

\* lines 225-241; alts[0] of an empty Alt is out of bounds
StepAlt ==
    /\ CanStep
    /\ frames # <<>>
    /\ Last(frames).frame = "Alt"
    /\ LET f == Last(frames)
           rest == Front(frames)
       IN IF f.idx = 0
          THEN IF Len(f.alts) = 0
               THEN Panic
               ELSE StepTo(rest \o <<AltFrame(f.alts, 1, pos), from_prod(f.alts[1])>>,
                           events, pos, finished)
          ELSE IF f.idx < Len(f.alts)
               THEN StepTo(rest \o <<AltFrame(f.alts, f.idx + 1, f.saved_pos),
                                     from_prod(f.alts[f.idx + 1])>>,
                           events, f.saved_pos, finished)
               ELSE LET r == fail(finished, events, rest, window_start + pos,
                                  "no alternative matched")
                    IN StepTo(rest, r.events, pos, r.finished)

\* lines 243-246
StepGroup ==
    /\ CanStep
    /\ frames # <<>>
    /\ Last(frames).frame = "Group"
    /\ StepTo(Append(Front(frames), from_prod(Last(frames).inner)), events, pos, finished)

\* a Repeat that attempts its item whatever max says
StepRepeat_IgnoresMax ==
    /\ CanStep
    /\ frames # <<>>
    /\ Last(frames).frame = "Repeat"
    /\ LET f == Last(frames)
           rest == Front(frames)
       IN IF f.trying
          THEN StepTo(rest \o <<RepeatFrame(f.item, f.quant, f.count, pos, FALSE),
                                from_prod(f.item)>>,
                      events, pos, finished)
          ELSE IF pos > f.saved_pos
               THEN StepTo(Append(rest, RepeatFrame(f.item, f.quant, f.count + 1, pos, TRUE)),
                           events, pos, finished)
               ELSE IF f.count < f.quant.min
                    THEN LET r == fail(finished, events, rest, window_start + pos,
                                       "repeat did not satisfy minimum occurrences")
                         IN StepTo(rest, r.events, pos, r.finished)
                    ELSE StepTo(rest, events, pos, finished)

\* a Repeat that goes on after an attempt that did not advance the cursor
StepRepeat_RetriesWithoutProgress ==
    /\ CanStep
    /\ frames # <<>>
    /\ Last(frames).frame = "Repeat"
    /\ LET f == Last(frames)
           rest == Front(frames)
       IN IF f.trying
          THEN IF \E max \in f.quant.max : f.count >= max
               THEN StepTo(rest, events, pos, finished)
               ELSE StepTo(rest \o <<RepeatFrame(f.item, f.quant, f.count, pos, FALSE),
                                     from_prod(f.item)>>,
                           events, pos, finished)
          ELSE StepTo(Append(rest, RepeatFrame(f.item, f.quant, f.count + 1, pos, TRUE)),
                      events, pos, finished)

\* lines 248-271
StepRepeat ==
    /\ CanStep
    /\ frames # <<>>
    /\ Last(frames).frame = "Repeat"
    /\ LET f == Last(frames)
           rest == Front(frames)
       IN IF f.trying
          THEN IF \E max \in f.quant.max : f.count >= max
               THEN StepTo(rest, events, pos, finished)
               ELSE StepTo(rest \o <<RepeatFrame(f.item, f.quant, f.count, pos, FALSE),
                                     from_prod(f.item)>>,
                           events, pos, finished)
          ELSE IF pos > f.saved_pos
               THEN StepTo(Append(rest, RepeatFrame(f.item, f.quant, f.count + 1, pos, TRUE)),
                           events, pos, finished)
               ELSE IF f.count < f.quant.min
                    THEN LET r == fail(finished, events, rest, window_start + pos,
                                       "repeat did not satisfy minimum occurrences")
                         IN StepTo(rest, r.events, pos, r.finished)
                    ELSE StepTo(rest, events, pos, finished)

\* self.input[self.pos..].starts_with(expected)
starts_with(b, expected) ==
    /\ b.pos + Len(expected) <= Len(b.input)
    /\ SubSeq(b.input, b.pos + 1, b.pos + Len(expected)) = expected

\* a consume that advances by one byte whatever was matched
consume_OneByte(p, bytes) == p + 1

\* Parser::consume (parser.rs 365-367)
consume(p, bytes) == p + bytes

\* lines 273-313; a Char is matched like a Str of one byte
StepTerminal ==
    /\ CanStep
    /\ frames # <<>>
    /\ Last(frames).frame = "Terminal"
    /\ LET kind == Last(frames).kind
           start == window_start + pos
           expected == IF kind.kind = "Char" THEN <<kind.ch>> ELSE kind.text
           needed == IF kind.kind = "Char" THEN 1 ELSE Len(kind.text)
           b == ensure_buffer(BufState(Front(frames)), needed)
       IN IF b.panic
          THEN Panic
          ELSE IF starts_with(b, expected)
               THEN LET p == consume(b.pos, Len(expected))
                        span == span_with_position(b.line_tracker, start, b.window_start + p)
                    IN StepWithBuffer(b, Append(events, TokenEv(kind.kind, expected, span)),
                                      p, finished)
               ELSE LET r == fail(finished, events, b.frames, b.window_start + b.pos,
                                  "terminal did not match")
                    IN StepWithBuffer(b, r.events, b.pos, r.finished)

\* lines 319-321: membership in the class, negation included
class_ok(class, ch) ==
    LET in_set == \/ \E i \in 1..Len(class.chars) : class.chars[i] = ch
                  \/ \E i \in 1..Len(class.ranges) :
                        /\ Ord(ch) >= Ord(class.ranges[i][1])
                        /\ Ord(ch) <= Ord(class.ranges[i][2])
    IN IF class.negated THEN ~in_set ELSE in_set

\* lines 315-340
StepClass ==
    /\ CanStep
    /\ frames # <<>>
    /\ Last(frames).frame = "Class"
    /\ LET class == Last(frames).class
           start == window_start + pos
           b == ensure_buffer(BufState(Front(frames)), 1)
       IN IF b.panic
          THEN Panic
          ELSE IF b.pos < Len(b.input) /\ class_ok(class, b.input[b.pos + 1])
               THEN LET ch == b.input[b.pos + 1]
                        p == consume(b.pos, 1)
                        span == span_with_position(b.line_tracker, start, b.window_start + p)
                    IN StepWithBuffer(b, Append(events, TokenEv("Class", <<ch>>, span)),
                                      p, finished)
               ELSE LET r == fail(finished, events, b.frames, b.window_start + b.pos,
                                  "character class did not match")
                    IN StepWithBuffer(b, r.events, b.pos, r.finished)

(***************************************************************************)
(* Parser::next_event (parser.rs 168-187) around step.                     *)
(***************************************************************************)
Return(ev) ==
    /\ out' = Append(out, ev)
    /\ pc' = "idle"
    /\ UNCHANGED <<runtime, builder, calls, built, errors, validated, grammar, source, chunk, rd, input, pos, window_start, frames,
                   line_tracker, finished, eof, panicked>>

\* lines 169-171: a call finds an event queued
NextEventQueued ==
    /\ ~panicked
    /\ pc = "idle"
    /\ Len(out) < MaxEvents
    /\ events # <<>>
    /\ events' = Tail(events)
    /\ Return(Head(events))

\* lines 173-175: a call finds the parser finished
NextEventFinished ==
    /\ ~panicked
    /\ pc = "idle"
    /\ Len(out) < MaxEvents
    /\ events = <<>>
    /\ finished
    /\ UNCHANGED events
    /\ Return(NoneEv)

\* lines 181-183: the step left an event in the queue
LoopReturnEvent ==
    /\ pc = "after_step"
    /\ events # <<>>
    /\ events' = Tail(events)
    /\ Return(Head(events))

\* line 177: nothing queued and not finished, the loop goes round
LoopContinue ==
    /\ pc = "after_step"
    /\ events = <<>>
    /\ ~finished
    /\ pc' = "loop"
    /\ UNCHANGED <<runtime, builder, calls, built, errors, validated, grammar, source, chunk, rd, input, pos, window_start, frames,
                   events, line_tracker, finished, eof, out, panicked>>

\* lines 177 and 186: the loop ends on finished with an empty queue
LoopReturnNone ==
    /\ pc = "after_step"
    /\ events = <<>>
    /\ finished
    /\ UNCHANGED events
    /\ Return(NoneEv)

Next ==
    \/ StepEmpty
    \/ StepRef
    \/ StepSeq
    \/ StepAlt
    \/ StepGroup
    \/ StepRepeat
    \/ StepTerminal
    \/ StepClass
    \/ NextEventQueued
    \/ NextEventFinished
    \/ LoopReturnEvent
    \/ LoopContinue
    \/ LoopReturnNone

Spec == Init /\ [][Next]_vars

(***************************************************************************)
(* The event stream seen by the caller.                                    *)
(***************************************************************************)
IsEvent(e) == e.type # "None"
\* the events next_event has returned, the None results left out
Delivered == SelectSeq(out, IsEvent)
\* next_event has returned None: the stream has ended
StreamEnded == out # <<>> /\ Last(out).type = "None"
HasError(evs) == \E i \in 1..Len(evs) : evs[i].type = "Error"
HasType(evs, type) == \E i \in 1..Len(evs) : evs[i].type = type
StartProd == grammar.rules[1].production

\* an Alt frame that has tried idx alternatives and has more to try
OpenAlt(f) == f.frame = "Alt" /\ f.idx >= 1 /\ f.idx < Len(f.alts)
\* a Repeat frame waiting for the outcome of an attempt, count already >= min
SatisfiedRepeat(f) == f.frame = "Repeat" /\ ~f.trying /\ f.count >= f.quant.min
\* a frame waiting for the outcome of an alternative or of a repeat attempt
AttemptFrame(f) == (f.frame = "Alt" /\ f.idx >= 1) \/ (f.frame = "Repeat" /\ ~f.trying)
\* step has just called fail: the Error is queued, frames is the stack that
\* was left when the failing frame had been popped
JustFailed == pc = "after_step" /\ HasError(events)

(***************************************************************************)
(* C1.  When an alternative of an Alt matches, the Alt succeeds with it:   *)
(* for a start rule that is an alternation of string literals and an input *)
(* equal to one of them (start = "foo" | "bar" | "baz" on "foo", "bar" or  *)
(* "baz"), once the Token of the matching alternative has been returned    *)
(* the cursor stays at the end of that token, no Error is returned and the *)
(* stream ends as Start(start), that one Token, End(start).                *)
(***************************************************************************)
IsAltOfStr(prod) ==
    /\ prod.type = "Alt"
    /\ \A i \in 1..Len(prod.alts) :
          prod.alts[i].type = "Terminal" /\ prod.alts[i].kind.kind = "Str"

C1_MatchingAlternativeWins ==
    (/\ grammar.rules # <<>>
     /\ IsAltOfStr(StartProd)
     /\ \E i \in 1..Len(StartProd.alts) : StartProd.alts[i].kind.text = source
     /\ HasType(out, "Token"))
    => /\ ~HasError(out)
       /\ ~HasError(events)
       /\ window_start + pos = Len(source)
       /\ Delivered[1] = StartEv("start")
       /\ Delivered[2].type = "Token" /\ Delivered[2].text = source
       /\ StreamEnded => Delivered = <<Delivered[1], Delivered[2], EndEv("start")>>

(***************************************************************************)
(* C2.  A failure that happens while an Alt on the frame stack still has   *)
(* untried alternatives produces no Error event.                           *)
(***************************************************************************)
C2_NoErrorWhileAltHasAlternatives ==
    JustFailed => ~\E i \in 1..Len(frames) : OpenAlt(frames[i])

(***************************************************************************)
(* C3.  No event is returned to the caller while the alternative or the    *)
(* repeat attempt that produced it is still being evaluated, that is       *)
(* while its Alt or Repeat frame is still on the frame stack.              *)
(***************************************************************************)
C3_NoDeliveryDuringAttempt ==
    (pc = "idle" /\ out # <<>> /\ Last(out).type \in {"Start", "End", "Token"})
    => ~\E i \in 1..Len(frames) : AttemptFrame(frames[i])

(***************************************************************************)
(* C4.  Stepping a Ref frame in stage Start for a defined rule r queues    *)
(* exactly Start(r) and leaves on top of the stack the frame of the        *)
(* production the grammar defines for r.                                   *)
(***************************************************************************)
C4_RefEvaluatesRuleProduction ==
    \A r \in {grammar.rules[i].name : i \in 1..Len(grammar.rules)} :
       (pc = "after_step" /\ events = <<StartEv(r)>>)
       => Last(frames) = from_prod(get_rule(grammar, r)[1].production)

(***************************************************************************)
(* C5.  The frame stack stays bounded: for a grammar with rules whose      *)
(* references are neither undefined nor recursive it never grows beyond    *)
(* the nesting depth of the grammar with its references expanded.          *)
(***************************************************************************)
SetMax(S) == CHOOSE m \in S : \A x \in S : x <= m

RECURSIVE NestingDepth(_, _)
\* frames the evaluation of prod needs, its own included
NestingDepth(g, prod) ==
    CASE prod.type = "Seq" ->
           1 + SetMax({0} \cup {NestingDepth(g, prod.items[i]) : i \in 1..Len(prod.items)})
      [] prod.type = "Alt" ->
           1 + SetMax({0} \cup {NestingDepth(g, prod.alts[i]) : i \in 1..Len(prod.alts)})
      [] prod.type = "Group" -> NestingDepth(g, prod.inner)
      [] prod.type = "Repeat" -> 1 + NestingDepth(g, prod.item)
      [] prod.type \in {"Terminal", "Class"} -> 1
      [] prod.type = "Ref" -> 1 + NestingDepth(g, get_rule(g, prod.name)[1].production)

C5_FrameStackBounded ==
    grammar.rules # <<>> => Len(frames) <= 1 + NestingDepth(grammar, StartProd)

(***************************************************************************)
(* C6.  In every stream that has ended without an Error the Start and End  *)
(* events are properly nested: each End(r) closes the most recent unclosed *)
(* Start, which is a Start(r), and none stays open (so every rule has as   *)
(* many Start as End events).                                              *)
(***************************************************************************)
RECURSIVE ProperlyNested(_, _)
ProperlyNested(evs, open) ==
    IF evs = <<>> THEN open = <<>>
    ELSE CASE Head(evs).type = "Start" ->
                ProperlyNested(Tail(evs), Append(open, Head(evs).rule))
           [] Head(evs).type = "End" ->
                /\ open # <<>>
                /\ Last(open) = Head(evs).rule
                /\ ProperlyNested(Tail(evs), Front(open))
           [] OTHER -> ProperlyNested(Tail(evs), open)

CountOf(evs, ev) == Cardinality({i \in 1..Len(evs) : evs[i] = ev})

C6_StartEndBalanced ==
    (StreamEnded /\ ~HasError(out))
    => /\ ProperlyNested(Delivered, <<>>)
       /\ \A i \in 1..Len(grammar.rules) :
             CountOf(out, StartEv(grammar.rules[i].name))
               = CountOf(out, EndEv(grammar.rules[i].name))

C6_Witness ==
    /\ StreamEnded
    /\ ~HasError(out)
    /\ HasType(out, "Start")
    /\ HasType(out, "Token")
    /\ HasType(out, "End")

(***************************************************************************)
(* C7.  An Error is the last event: what next_event returns after an Error *)
(* or after a None is None, so the stream holds at most one Error.         *)
(***************************************************************************)
C7_ErrorEndsStream ==
    \A i \in 1..Len(out) : \A j \in 1..Len(out) :
       (i < j /\ out[i].type \in {"Error", "None"}) => out[j].type = "None"

C7_Witness ==
    \E i \in 1..Len(out) :
       /\ i > 1
       /\ out[i].type = "Error"
       /\ out[i].message # "grammar has no rules"
       /\ Len(out) >= i + 2

(***************************************************************************)
(* C8.  A failure that happens while a Repeat on the frame stack waits for *)
(* an attempt and already has count >= min produces no Error event; with a *)
(* start rule Repeat{min = 0} and empty input the stream is Start(start),  *)
(* End(start).                                                             *)
(***************************************************************************)
C8_SatisfiedRepeatAcceptsFailure ==
    /\ JustFailed => ~\E i \in 1..Len(frames) : SatisfiedRepeat(frames[i])
    /\ (/\ grammar.rules # <<>>
        /\ StartProd.type = "Repeat"
        /\ StartProd.quant.min = 0
        /\ source = <<>>
        /\ StreamEnded)
       => Delivered = <<StartEv("start"), EndEv("start")>>

(***************************************************************************)
(* C9.  With a start rule that is a repetition of min = 1 and empty input  *)
(* the stream is Start(start), then an Error whose message contains        *)
(* "repeat" or "minimum".                                                  *)
(***************************************************************************)
\* of the messages the engine produces, the one containing these words
MentionsRepeatOrMinimum(message) ==
    message = "failed to match: repeat did not satisfy minimum occurrences"

C9_MinimumNotMetOnEmptyInput ==
    (/\ grammar.rules # <<>>
     /\ StartProd.type = "Repeat"
     /\ StartProd.quant.min = 1
     /\ source = <<>>
     /\ StreamEnded)
    => /\ Len(Delivered) = 2
       /\ Delivered[1] = StartEv("start")
       /\ Delivered[2].type = "Error"
       /\ MentionsRepeatOrMinimum(Delivered[2].message)

(***************************************************************************)
(* C10.  With a start rule that is a sequence of n string literals and an  *)
(* input equal to their concatenation the stream is Start(start), n Token  *)
(* events, End(start): token i carries literal i, the first span starts at *)
(* 0, each span starts where the previous one ended and the last one ends  *)
(* at the input length.                                                    *)
(***************************************************************************)
IsSeqOfStr(prod) ==
    /\ prod.type = "Seq"
    /\ \A i \in 1..Len(prod.items) :
          prod.items[i].type = "Terminal" /\ prod.items[i].kind.kind = "Str"

RECURSIVE Concat(_)
Concat(items) ==
    IF items = <<>> THEN <<>> ELSE Head(items).kind.text \o Concat(Tail(items))

SeqOfStrOnItsInput ==
    /\ grammar.rules # <<>>
    /\ IsSeqOfStr(StartProd)
    /\ source = Concat(StartProd.items)

C10_SequenceOfLiterals ==
    (SeqOfStrOnItsInput /\ StreamEnded)
    => LET n == Len(StartProd.items)
           d == Delivered
       IN /\ Len(d) = n + 2
          /\ d[1] = StartEv("start")
          /\ d[n + 2] = EndEv("start")
          /\ \A i \in 1..n :
                /\ d[i + 1].type = "Token"
                /\ d[i + 1].kind = "Str"
                /\ d[i + 1].text = StartProd.items[i].kind.text
                /\ d[i + 1].span.start = (IF i = 1 THEN 0 ELSE d[i].span.end)
                /\ d[i + 1].span.end = d[i + 1].span.start + Len(StartProd.items[i].kind.text)
          /\ n >= 1 => d[n + 1].span.end = Len(source)

C10_Witness ==
    /\ SeqOfStrOnItsInput
    /\ StreamEnded
    /\ Len(StartProd.items) = 3
    /\ window_start > 0
    /\ Len(Delivered) = 5

(***************************************************************************)
(* C11.  The engine does not demand that the whole input is consumed.  The *)
(* start rule's production has completed when the frame stack is empty;    *)
(* when that happens before the end of the input no Error is queued or     *)
(* returned and the stream ends with End(start).  For a start rule made of *)
(* string literals and an input that continues after their concatenation   *)
(* the stream is Start(start), the tokens, End(start).                     *)
(***************************************************************************)
IsProperPrefix(p, s) == Len(p) < Len(s) /\ SubSeq(s, 1, Len(p)) = p

\* the literals of a start rule that is a string literal or a sequence of them
LiteralsOf(prod) ==
    IF prod.type = "Terminal" /\ prod.kind.kind = "Str" THEN <<prod>>
    ELSE IF IsSeqOfStr(prod) THEN prod.items
    ELSE <<>>

LiteralsThenMore ==
    /\ grammar.rules # <<>>
    /\ LiteralsOf(StartProd) # <<>>
    /\ IsProperPrefix(Concat(LiteralsOf(StartProd)), source)

C11_TrailingInputIgnored ==
    /\ (grammar.rules # <<>> /\ frames = <<>> /\ window_start + pos < Len(source))
       => /\ ~HasError(out)
          /\ ~HasError(events)
          /\ HasType(out \o events, "End")
          /\ StreamEnded => Last(Delivered) = EndEv(grammar.rules[1].name)
    /\ (LiteralsThenMore /\ StreamEnded)
       => /\ Len(Delivered) = Len(LiteralsOf(StartProd)) + 2
          /\ Delivered[1] = StartEv("start")
          /\ \A i \in 1..Len(LiteralsOf(StartProd)) :
                /\ Delivered[i + 1].type = "Token"
                /\ Delivered[i + 1].text = LiteralsOf(StartProd)[i].kind.text
          /\ Last(Delivered) = EndEv("start")
          /\ window_start + pos = Len(Concat(LiteralsOf(StartProd)))

C11_Witness ==
    /\ LiteralsThenMore
    /\ StreamEnded
    /\ frames = <<>>
    /\ window_start + pos < Len(source)
    /\ Last(Delivered) = EndEv("start")

(***************************************************************************)
(* C12.  With a start rule that is a one-or-more repetition of a character *)
(* class ([a-z]+) and an input of n >= 1 characters of the class, no Error *)
(* is produced and the stream that ends holds exactly n Token events.      *)
(* Written through a rule reference (digit { digit }), the rule digit is   *)
(* entered at most once per input character.                               *)
(***************************************************************************)
IsPlusClass(prod) ==
    /\ prod.type = "Repeat"
    /\ prod.quant = [min |-> 1, max |-> {}]
    /\ prod.item.type = "Class"

\* [a-z]+ on an input made of characters of the class
PlusClassOnMatchingInput ==
    /\ grammar.rules # <<>>
    /\ IsPlusClass(StartProd)
    /\ \A i \in 1..Len(source) : class_ok(StartProd.item.class, source[i])

TokenCount(evs) == Cardinality({i \in 1..Len(evs) : evs[i].type = "Token"})

C12_OneTokenPerCharacter ==
    /\ (PlusClassOnMatchingInput /\ Len(source) >= 1)
       => /\ ~HasError(events)
          /\ ~HasError(out)
          /\ StreamEnded => TokenCount(out) = Len(source)
    /\ (grammar = G_RefRepeat /\ Len(source) >= 1 /\ \A i \in 1..Len(source) : source[i] = "a")
       => CountOf(out, StartEv("digit")) <= Len(source)

(***************************************************************************)
(* C13.  While [a-z]+ is parsed over a matching input that the reader      *)
(* delivers in chunks of at most MIN_SLIDE_SIZE bytes, the buffer never    *)
(* holds more than 2 * MAX_BUFFER_SIZE bytes.                              *)
(***************************************************************************)
C13_BufferBounded ==
    (PlusClassOnMatchingInput /\ chunk <= MIN_SLIDE_SIZE)
    => Len(input) <= 2 * MAX_BUFFER_SIZE

C13_Witness ==
    /\ PlusClassOnMatchingInput
    /\ chunk <= MIN_SLIDE_SIZE
    /\ Len(source) > 2 * MAX_BUFFER_SIZE
    /\ window_start > MAX_BUFFER_SIZE
    /\ window_start + pos = Len(source)

(***************************************************************************)
(* The engine as a function of its state record, for comparing whole runs: *)
(* step and next_event of parser.rs on the record                          *)
(* [input, pos, window_start, frames, events, line_tracker, finished, eof, *)
(*  rd, chunk, panic, sliding].  With sliding = FALSE the slide of         *)
(* ensure_buffer (lines 375-401) is left out: no buffer byte is ever       *)
(* discarded.                                                              *)
(***************************************************************************)
\* lines 403-418: ensure_buffer without the slide
ensure_buffer_NoSlide(s, needed_bytes) ==
    IF available(s) >= needed_bytes \/ s.eof THEN s ELSE refill(s, needed_bytes)

\* Parser::new
new(g, sliding) ==
    [input |-> <<>>, pos |-> 0, window_start |-> 0,
     frames |-> IF g.rules # <<>>
                THEN <<RefFrame(g.rules[1].name, g.rules[1].production, "Start")>>
                ELSE <<>>,
     events |-> IF g.rules # <<>> THEN <<>> ELSE <<ErrorEv("grammar has no rules", 0, {})>>,
     line_tracker |-> LT_new(<<>>),
     finished |-> (g.rules = <<>>),
     eof |-> FALSE, rd |-> 0, chunk |-> chunk, panic |-> FALSE, sliding |-> sliding]

\* self.fail(msg) on the record
fail_in(s, msg) ==
    LET r == fail(s.finished, s.events, s.frames, s.window_start + s.pos, msg)
    IN [s EXCEPT !.finished = r.finished, !.events = r.events]

\* a matched token: consume and queue the Token
token_in(b, kind, text, start, bytes) ==
    LET p == consume(b.pos, bytes)
    IN [b EXCEPT !.pos = p,
                 !.events = Append(@, TokenEv(kind, text,
                               span_with_position(b.line_tracker, start, b.window_start + p)))]

\* Parser::step (parser.rs 189-342)
step(s) ==
    IF s.frames = <<>> THEN [s EXCEPT !.finished = TRUE]
    ELSE
    LET f == Last(s.frames)
        rest == Front(s.frames)
        popped == [s EXCEPT !.frames = rest]
        start == s.window_start + s.pos
    IN CASE f.frame = "Ref" ->
              LET r == ref_step(f, rest, s.events)
              IN [s EXCEPT !.frames = r.frames, !.events = r.events]
         [] f.frame = "Seq" ->
              IF f.idx < Len(f.items)
              THEN [s EXCEPT !.frames = rest \o <<SeqFrame(f.items, f.idx + 1),
                                                  from_prod(f.items[f.idx + 1])>>]
              ELSE popped
         [] f.frame = "Alt" ->
              IF f.idx = 0
              THEN IF Len(f.alts) = 0
                   THEN [s EXCEPT !.panic = TRUE]
                   ELSE [s EXCEPT !.frames = rest \o <<AltFrame(f.alts, 1, s.pos),
                                                       from_prod(f.alts[1])>>]
              ELSE IF f.idx < Len(f.alts)
                   THEN [s EXCEPT !.pos = f.saved_pos,
                                  !.frames = rest \o <<AltFrame(f.alts, f.idx + 1, f.saved_pos),
                                                       from_prod(f.alts[f.idx + 1])>>]
                   ELSE fail_in(popped, "no alternative matched")
         [] f.frame = "Group" -> [s EXCEPT !.frames = Append(rest, from_prod(f.inner))]
         [] f.frame = "Repeat" ->
              IF f.trying
              THEN IF \E max \in f.quant.max : f.count >= max
                   THEN popped
                   ELSE [s EXCEPT !.frames =
                            rest \o <<RepeatFrame(f.item, f.quant, f.count, s.pos, FALSE),
                                      from_prod(f.item)>>]
              ELSE IF s.pos > f.saved_pos
                   THEN [s EXCEPT !.frames =
                            Append(rest, RepeatFrame(f.item, f.quant, f.count + 1, s.pos, TRUE))]
                   ELSE IF f.count < f.quant.min
                        THEN fail_in(popped, "repeat did not satisfy minimum occurrences")
                        ELSE popped
         [] f.frame = "Terminal" ->
              LET expected == IF f.kind.kind = "Char" THEN <<f.kind.ch>> ELSE f.kind.text
                  needed == IF f.kind.kind = "Char" THEN 1 ELSE Len(f.kind.text)
                  b == IF s.sliding THEN ensure_buffer(popped, needed)
                       ELSE ensure_buffer_NoSlide(popped, needed)
              IN IF b.panic THEN [s EXCEPT !.panic = TRUE]
                 ELSE IF starts_with(b, expected)
                      THEN token_in(b, f.kind.kind, expected, start, Len(expected))
                      ELSE fail_in(b, "terminal did not match")
         [] f.frame = "Class" ->
              LET b == IF s.sliding THEN ensure_buffer(popped, 1)
                       ELSE ensure_buffer_NoSlide(popped, 1)
              IN IF b.panic THEN [s EXCEPT !.panic = TRUE]
                 ELSE IF b.pos < Len(b.input) /\ class_ok(f.class, b.input[b.pos + 1])
                      THEN token_in(b, "Class", <<b.input[b.pos + 1]>>, start, 1)
                      ELSE fail_in(b, "character class did not match")

\* what a call returns: the state it leaves and the value, a Panic event for
\* a panic
Returned(s, ev) == [state |-> s, ret |-> ev]

RECURSIVE next_event_loop(_)
\* lines 177-186: the loop of next_event
next_event_loop(s) ==
    IF s.finished THEN Returned(s, NoneEv)
    ELSE LET u == step(s)
         IN IF u.panic THEN Returned(u, [type |-> "Panic"])
            ELSE IF u.events # <<>>
                 THEN Returned([u EXCEPT !.events = Tail(@)], Head(u.events))
                 ELSE next_event_loop(u)

\* Parser::next_event (parser.rs 168-187)
next_event(s) ==
    IF s.panic THEN Returned(s, [type |-> "Panic"])
    ELSE IF s.events # <<>> THEN Returned([s EXCEPT !.events = Tail(@)], Head(s.events))
    ELSE next_event_loop(s)

\* Parser::current_position (parser.rs 427-429)
current_position(s) == s.window_start + s.pos

RECURSIVE Calls(_, _)
\* the first k calls of next_event on s: what each returned and
\* current_position() after it
Calls(s, k) ==
    IF k = 0 THEN <<>>
    ELSE LET r == next_event(s)
         IN <<[ret |-> r.ret, position |-> current_position(r.state)]>>
            \o Calls(r.state, k - 1)

(***************************************************************************)
(* C14.  The window slide is not observable: what the calls of next_event  *)
(* have returned so far, and current_position() after the last of them,    *)
(* are what the same calls return on an engine that never discards buffer  *)
(* bytes.                                                                  *)
(***************************************************************************)
C14_SlideNotObservable ==
    (pc = "idle" /\ ~panicked)
    => LET ref == Calls(new(grammar, FALSE), Len(out))
       IN /\ out = [i \in 1..Len(out) |-> ref[i].ret]
          /\ out # <<>> => window_start + pos = ref[Len(out)].position

\* a Token was returned after the window had slid twice
C14_Witness ==
    /\ pc = "idle"
    /\ window_start > MAX_BUFFER_SIZE
    /\ out # <<>>
    /\ Last(out).type = "Token"
    /\ Last(out).span.start >= window_start

(***************************************************************************)
(* C15.  Every Token returned has a non-empty span inside the input:       *)
(* 0 <= span.start < span.end <= length of the input.                      *)
(***************************************************************************)
C15_TokenSpansNonEmpty ==
    \A i \in 1..Len(out) :
       out[i].type = "Token"
       => /\ 0 <= out[i].span.start
          /\ out[i].span.start < out[i].span.end
          /\ out[i].span.end <= Len(source)

(***************************************************************************)
(* C16.  Every Error of a parse failure has a message that starts with     *)
(* "failed to match", the absolute position of the cursor at the failure   *)
(* (the cursor does not move afterwards) and as rule context the innermost *)
(* rule whose Start has been emitted and whose End has not.                *)
(***************************************************************************)
\* the messages of the engine that start with "failed to match"
FailedToMatch ==
    {"failed to match: " \o m :
        m \in {"terminal did not match", "character class did not match",
               "no alternative matched", "repeat did not satisfy minimum occurrences"}}

RECURSIVE OpenRules(_)
\* the rules that the events evs have started and not ended, innermost last
OpenRules(evs) ==
    IF evs = <<>> THEN <<>>
    ELSE LET before == OpenRules(Front(evs))
         IN CASE Last(evs).type = "Start" -> Append(before, Last(evs).rule)
              [] Last(evs).type = "End" /\ before # <<>> -> Front(before)
              [] OTHER -> before

\* the events emitted so far: those returned and those still queued
Emitted == Delivered \o events

C16_ErrorCarriesContext ==
    \A i \in 1..Len(Emitted) :
       (Emitted[i].type = "Error" /\ Emitted[i].message # "grammar has no rules")
       => /\ Emitted[i].message \in FailedToMatch
          /\ Emitted[i].position = window_start + pos
          /\ OpenRules(SubSeq(Emitted, 1, i - 1)) # <<>>
          /\ Emitted[i].rule_context = {Last(OpenRules(SubSeq(Emitted, 1, i - 1)))}

C16_Witness ==
    /\ HasError(out)
    /\ Last(Delivered).type = "Error"
    /\ Last(Delivered).position > 0
    /\ Last(Delivered).rule_context = {"start"}
    /\ window_start > 0

(***************************************************************************)
(* Grammar::validate (grammar.rs 78-355).  A HashSet is a set, a Vec a     *)
(* sequence, an Option a sequence of length at most one.                   *)
(***************************************************************************)
\* lines 87-88: the names of the rules
defined(g) == {g.rules[i].name : i \in 1..Len(g.rules)}

\* lines 129-131: the HashMap collected from the rules, where a later rule
\* replaces an earlier one of the same name
rule_map_get(g, name) ==
    LET hits == {i \in 1..Len(g.rules) : g.rules[i].name = name}
    IN IF hits = {} THEN <<>> ELSE <<g.rules[SetMax(hits)].production>>

\* the children of a Seq or an Alt
Children(p) == IF p.type = "Seq" THEN p.items ELSE p.alts

RECURSIVE check_prod(_, _)
RECURSIVE check_prods(_, _)
\* lines 91-108: one message per Ref whose name is not defined
check_prod(p, defined_) ==
    CASE p.type \in {"Seq", "Alt"} -> check_prods(Children(p), defined_)
      [] p.type = "Group" -> check_prod(p.inner, defined_)
      [] p.type = "Repeat" -> check_prod(p.item, defined_)
      [] p.type \in {"Terminal", "Class"} -> <<>>
      [] p.type = "Ref" ->
           IF p.name \in defined_ THEN <<>>
           ELSE <<"undefined rule '" \o p.name \o "'">>
\* lines 94-96: the loop over the children
check_prods(items, defined_) ==
    IF items = <<>> THEN <<>>
    ELSE check_prod(Head(items), defined_) \o check_prods(Tail(items), defined_)

RECURSIVE join(_, _)
\* path.join(sep)
join(path, sep) ==
    IF path = <<>> THEN ""
    ELSE IF Len(path) = 1 THEN path[1]
    ELSE path[1] \o sep \o join(Tail(path), sep)

RECURSIVE is_left_recursive(_, _, _, _)
RECURSIVE check_prod_left_recursion(_, _, _, _)
RECURSIVE any_left_recursion(_, _, _, _)
\* lines 145-180: the result and the path Vec as the call leaves it
is_left_recursive(g, rule_name, visited, path) ==
    IF rule_name \in visited
    THEN [result |-> TRUE, path |-> Append(path, rule_name)]
    ELSE IF rule_map_get(g, rule_name) = <<>>
         THEN [result |-> FALSE, path |-> path]
         ELSE LET r == check_prod_left_recursion(g, rule_map_get(g, rule_name)[1],
                                                 visited \cup {rule_name},
                                                 Append(path, rule_name))
              IN [result |-> r.result, path |-> Front(r.path)]
\* lines 183-223
check_prod_left_recursion(g, prod, visited, path) ==
    CASE prod.type = "Seq" ->
           IF prod.items # <<>>
           THEN check_prod_left_recursion(g, prod.items[1], visited, path)
           ELSE [result |-> FALSE, path |-> path]
      [] prod.type = "Alt" -> any_left_recursion(g, prod.alts, visited, path)
      [] prod.type = "Group" -> check_prod_left_recursion(g, prod.inner, visited, path)
      [] prod.type = "Repeat" ->
           IF prod.quant.min = 0
           THEN [result |-> FALSE, path |-> path]
           ELSE check_prod_left_recursion(g, prod.item, visited, path)
      [] prod.type \in {"Terminal", "Class"} -> [result |-> FALSE, path |-> path]
      [] prod.type = "Ref" -> is_left_recursive(g, prod.name, visited, path)
\* line 201: alts.iter().any(..), which stops at the first alternative found
any_left_recursion(g, alts, visited, path) ==
    IF alts = <<>> THEN [result |-> FALSE, path |-> path]
    ELSE LET r == check_prod_left_recursion(g, Head(alts), visited, path)
         IN IF r.result THEN r ELSE any_left_recursion(g, Tail(alts), visited, r.path)

RECURSIVE left_recursion_from(_, _)
\* lines 134-141: the loop over the rules, from rule i on
left_recursion_from(g, i) ==
    IF i > Len(g.rules) THEN <<>>
    ELSE LET r == is_left_recursive(g, g.rules[i].name, {}, <<>>)
         IN (IF r.result
             THEN <<"left recursion detected: " \o join(r.path, " -> ")>>
             ELSE <<>>) \o left_recursion_from(g, i + 1)

\* a check that looks at the first rule only
check_left_recursion_FirstRuleOnly(g) ==
    LET r == is_left_recursive(g, g.rules[1].name, {}, <<>>)
    IN IF r.result THEN <<"left recursion detected: " \o join(r.path, " -> ")>> ELSE <<>>

\* lines 125-142: the messages check_left_recursion appends
check_left_recursion(g) == left_recursion_from(g, 1)

RECURSIVE prod_has_terminal(_)
\* lines 323-333
prod_has_terminal(prod) ==
    CASE prod.type \in {"Seq", "Alt"} ->
           \E i \in 1..Len(Children(prod)) : prod_has_terminal(Children(prod)[i])
      [] prod.type = "Group" -> prod_has_terminal(prod.inner)
      [] prod.type = "Repeat" -> prod_has_terminal(prod.item)
      [] prod.type \in {"Terminal", "Class"} -> TRUE
      [] prod.type = "Ref" -> FALSE

RECURSIVE collect_rule_refs(_)
RECURSIVE collect_refs_of(_)
\* lines 336-354: the names of the Refs of prod, in order
collect_rule_refs(prod) ==
    CASE prod.type \in {"Seq", "Alt"} -> collect_refs_of(Children(prod))
      [] prod.type = "Group" -> collect_rule_refs(prod.inner)
      [] prod.type = "Repeat" -> collect_rule_refs(prod.item)
      [] prod.type \in {"Terminal", "Class"} -> <<>>
      [] prod.type = "Ref" -> <<prod.name>>
collect_refs_of(items) ==
    IF items = <<>> THEN <<>>
    ELSE collect_rule_refs(Head(items)) \o collect_refs_of(Tail(items))

\* lines 306-320: no rule of the visiting set holds a terminal
is_pure_reference_cycle(g, visiting) ==
    \A name \in visiting :
       rule_map_get(g, name) # <<>> => ~prod_has_terminal(rule_map_get(g, name)[1])

RECURSIVE has_problematic_cycle(_, _, _)
RECURSIVE cycle_among(_, _, _)
\* lines 254-303 on the record st = [visiting, fully_processed, path]; the
\* result comes with the three collections as the call leaves them
has_problematic_cycle(g, rule_name, st) ==
    IF rule_name \in st.fully_processed
    THEN [result |-> FALSE, visiting |-> st.visiting,
          fully_processed |-> st.fully_processed, path |-> st.path]
    ELSE IF rule_name \in st.visiting
    THEN [result |-> is_pure_reference_cycle(g, st.visiting), visiting |-> st.visiting,
          fully_processed |-> st.fully_processed, path |-> Append(st.path, rule_name)]
    ELSE IF rule_map_get(g, rule_name) = <<>>
    THEN [result |-> FALSE, visiting |-> st.visiting \ {rule_name},
          fully_processed |-> st.fully_processed, path |-> st.path]
    ELSE LET r == cycle_among(g, collect_rule_refs(rule_map_get(g, rule_name)[1]),
                              [visiting |-> st.visiting \cup {rule_name},
                               fully_processed |-> st.fully_processed,
                               path |-> Append(st.path, rule_name)])
         IN IF r.result THEN r
            ELSE [result |-> FALSE, visiting |-> r.visiting \ {rule_name},
                  fully_processed |-> r.fully_processed \cup {rule_name},
                  path |-> Front(r.path)]
\* lines 292-296: the loop over the referenced rules
cycle_among(g, refs, st) ==
    IF refs = <<>>
    THEN [result |-> FALSE, visiting |-> st.visiting,
          fully_processed |-> st.fully_processed, path |-> st.path]
    ELSE LET r == has_problematic_cycle(g, Head(refs), st)
         IN IF r.result THEN r
            ELSE cycle_among(g, Tail(refs), [visiting |-> r.visiting,
                                             fully_processed |-> r.fully_processed,
                                             path |-> r.path])

RECURSIVE cyclic_dependencies_from(_, _, _)
\* lines 239-250: the loop over the rules, from rule i on
cyclic_dependencies_from(g, i, fully_processed) ==
    IF i > Len(g.rules) THEN <<>>
    ELSE IF g.rules[i].name \in fully_processed
    THEN cyclic_dependencies_from(g, i + 1, fully_processed)
    ELSE LET r == has_problematic_cycle(g, g.rules[i].name,
                     [visiting |-> {}, fully_processed |-> fully_processed, path |-> <<>>])
         IN (IF r.result
             THEN <<"cyclic dependency detected: " \o join(r.path, " -> ")>>
             ELSE <<>>) \o cyclic_dependencies_from(g, i + 1, r.fully_processed)

\* lines 227-251: the messages check_cyclic_dependencies appends
check_cyclic_dependencies(g) == cyclic_dependencies_from(g, 1, {})

RECURSIVE undefined_from(_, _)
\* lines 110-113: check_prod on every rule, from rule i on
undefined_from(g, i) ==
    IF i > Len(g.rules) THEN <<>>
    ELSE check_prod(g.rules[i].production, defined(g)) \o undefined_from(g, i + 1)

\* a validate that returns as soon as it has found an undefined reference
validate_StopsAtUndefined(g) ==
    IF g.rules = <<>> THEN <<"grammar has no rules">>
    ELSE IF undefined_from(g, 1) # <<>> THEN undefined_from(g, 1)
    ELSE check_left_recursion(g) \o check_cyclic_dependencies(g)

\* Grammar::validate (grammar.rs 78-122)
validate(g) ==
    IF g.rules = <<>> THEN <<"grammar has no rules">>
    ELSE undefined_from(g, 1) \o check_left_recursion(g) \o check_cyclic_dependencies(g)

(***************************************************************************)
(* C17.  For a grammar that validate() accepts (an empty error list), no   *)
(* step of the engine panics, whatever the input.                          *)
(***************************************************************************)
C17_NoPanicOnValidGrammar == validate(grammar) = <<>> => ~panicked

(***************************************************************************)
(* Validation of a grammar on its own: the grammars are every assignment   *)
(* of a production of Productions to the rules a and a b, of a production  *)
(* of CoreProductions to the rules a b c, and the grammars of the unit     *)
(* tests of grammar.rs.  The parser is constructed and never called.       *)
(***************************************************************************)
RuleNames == <<"a", "b", "c">>
Names == {RuleNames[i] : i \in 1..Len(RuleNames)}

CoreProductions ==
    {PChar("x"), PRef("missing")}
    \cup {PRef(n) : n \in Names}
    \cup {PSeq(<<PRef(n), PChar("x")>>) : n \in Names}
    \cup {PSeq(<<PChar("x"), PRef(n)>>) : n \in Names}
    \cup {Star(PRef(n)) : n \in Names}

Productions ==
    CoreProductions
    \cup {PSeq(<<>>), PAlt(<<>>)}
    \cup {PAlt(<<PChar("x"), PRef(n)>>) : n \in Names}
    \cup {Plus(PRef(n)) : n \in Names}
    \cup {PGroup(PRef(n)) : n \in Names}
    \cup {PSeq(<<PRef(n), PRef(m)>>) : n \in Names, m \in Names}
    \cup {PSeq(<<PRef("missing"), PRef(n), PRef("missing")>>) : n \in Names}

\* the grammars of n rules with productions of pool
GrammarsOver(n, pool) ==
    {[rules |-> [i \in 1..n |-> Rule(RuleNames[i], ps[i])]] : ps \in [1..n -> pool]}

ValidationGrammars ==
    UNION {GrammarsOver(n, Productions) : n \in 1..(Len(RuleNames) - 1)}
    \cup GrammarsOver(Len(RuleNames), CoreProductions)
    \cup {\* the grammars of the unit tests of grammar.rs:
          \* expr = expr '+' term | term; term = 'x'
          [rules |-> <<Rule("expr", PAlt(<<PSeq(<<PRef("expr"), PChar("+"), PRef("term")>>),
                                           PRef("term")>>)),
                       Rule("term", PChar("x"))>>],
          \* expr = term '+' expr | term; term = 'x'
          [rules |-> <<Rule("expr", PAlt(<<PSeq(<<PRef("term"), PChar("+"), PRef("expr")>>),
                                           PRef("term")>>)),
                       Rule("term", PChar("x"))>>],
          \* a = 'x' a 'y' | 'z'
          [rules |-> <<Rule("a", PAlt(<<PSeq(<<PChar("x"), PRef("a"), PChar("y")>>),
                                        PChar("z")>>))>>],
          \* a = b | 'x'; b = c | 'y'; c = 'z'
          [rules |-> <<Rule("a", PAlt(<<PRef("b"), PChar("x")>>)),
                       Rule("b", PAlt(<<PRef("c"), PChar("y")>>)),
                       Rule("c", PChar("z"))>>],
          G_RefClass, G_RefRepeat, G_EmptySeq, G_EmptyAlt, G_NoRules}

InitValidate ==
    /\ grammar \in ValidationGrammars
    /\ source = <<>>
    /\ chunk = 1
    /\ LET s == new(grammar, TRUE)
       IN /\ rd = s.rd
          /\ input = s.input
          /\ pos = s.pos
          /\ window_start = s.window_start
          /\ frames = s.frames
          /\ events = s.events
          /\ line_tracker = s.line_tracker
          /\ finished = s.finished
          /\ eof = s.eof
    /\ pc = "idle"
    /\ out = <<>>
    /\ panicked = FALSE
    /\ errors = <<>>
    /\ validated = FALSE
    /\ builder = AstBuilder_new
    /\ calls = <<>>
    /\ built = <<>>
    /\ runtime = <<>>

\* the caller calls grammar.validate()
Validate ==
    /\ ~validated
    /\ errors' = validate(grammar)
    /\ validated' = TRUE
    /\ UNCHANGED <<runtime, builder, calls, built, grammar, source, chunk, rd, input, pos, window_start, frames, events,
                   line_tracker, finished, eof, pc, out, panicked>>

NextValidate == Validate

SpecValidate == InitValidate /\ [][NextValidate]_vars

(***************************************************************************)
(* What the messages of validate can be for the grammar g.                 *)
(***************************************************************************)
\* the sequences of 1..k rule names of g
PathsOver(g, k) == UNION {[1..n -> defined(g)] : n \in 1..k}
LeftRecursionMessagesFor(g, R) ==
    {"left recursion detected: " \o join(path, " -> ") :
        path \in {q \in PathsOver(g, Len(g.rules) + 1) : q[1] = R}}
CyclicMessages(g) ==
    {"cyclic dependency detected: " \o join(path, " -> ") :
        path \in PathsOver(g, Len(g.rules) + 2)}
UndefinedMessage(X) == "undefined rule '" \o X \o "'"
IsUndefinedMessage(e) == e \in {UndefinedMessage(X) : X \in Names \cup {"missing"}}
IsOtherMessage(e) == ~IsUndefinedMessage(e)

RECURSIVE CountRefs(_, _)
RECURSIVE CountRefsIn(_, _)
\* the number of Ref nodes of prod whose name is X
CountRefs(prod, X) ==
    CASE prod.type \in {"Seq", "Alt"} -> CountRefsIn(Children(prod), X)
      [] prod.type = "Group" -> CountRefs(prod.inner, X)
      [] prod.type = "Repeat" -> CountRefs(prod.item, X)
      [] prod.type \in {"Terminal", "Class"} -> 0
      [] prod.type = "Ref" -> IF prod.name = X THEN 1 ELSE 0
CountRefsIn(prods, X) ==
    IF prods = <<>> THEN 0 ELSE CountRefs(Head(prods), X) + CountRefsIn(Tail(prods), X)

RECURSIVE CountRefsInRules(_, _)
CountRefsInRules(rules, X) ==
    IF rules = <<>> THEN 0
    ELSE CountRefs(Head(rules).production, X) + CountRefsInRules(Tail(rules), X)

RECURSIVE Resolved(_, _)
\* prod with every Ref to a rule outside names replaced by the empty sequence
Resolved(prod, names) ==
    CASE prod.type = "Seq" ->
           PSeq([i \in 1..Len(prod.items) |-> Resolved(prod.items[i], names)])
      [] prod.type = "Alt" ->
           PAlt([i \in 1..Len(prod.alts) |-> Resolved(prod.alts[i], names)])
      [] prod.type = "Group" -> PGroup(Resolved(prod.inner, names))
      [] prod.type = "Repeat" ->
           PRepeat(Resolved(prod.item, names), prod.quant.min, prod.quant.max)
      [] prod.type \in {"Terminal", "Class"} -> prod
      [] prod.type = "Ref" -> IF prod.name \in names THEN prod ELSE PSeq(<<>>)

\* g without its undefined references
WithoutUndefined(g) ==
    [rules |-> [i \in 1..Len(g.rules) |->
                  Rule(g.rules[i].name, Resolved(g.rules[i].production, defined(g)))]]

(***************************************************************************)
(* C18.  validate returns "undefined rule 'X'" once for every Ref whose    *)
(* name X is not the name of a rule, at any depth, and for no other name;  *)
(* the messages of the left-recursion and cycle analyses are those it      *)
(* returns for the grammar without the undefined references: the analyses  *)
(* run whether or not undefined references were found.                     *)
(***************************************************************************)
C18_UndefinedReferencesReported ==
    (validated /\ grammar.rules # <<>>)
    => /\ \A X \in Names \cup {"missing"} \cup defined(grammar) :
             Cardinality({i \in 1..Len(errors) : errors[i] = UndefinedMessage(X)})
               = (IF X \in defined(grammar) THEN 0 ELSE CountRefsInRules(grammar.rules, X))
       /\ SelectSeq(errors, IsOtherMessage) = validate(WithoutUndefined(grammar))

\* an undefined name referred to twice in a grammar that is left-recursive
\* and has a cycle of references
C18_Witness ==
    /\ validated
    /\ Cardinality({i \in 1..Len(errors) : errors[i] = UndefinedMessage("missing")}) = 2
    /\ \E i \in 1..Len(errors) : errors[i] \in LeftRecursionMessagesFor(grammar, "b")
    /\ \E i \in 1..Len(errors) : errors[i] \in CyclicMessages(grammar)

(***************************************************************************)
(* C19.  validate returns a "left recursion detected" message for the rule *)
(* R exactly when the leftmost derivations from R come back to a rule      *)
(* already met: following the first child of a Seq, any child of an Alt,   *)
(* the inner of a Group, the item of a Repeat with min >= 1 and the        *)
(* production of a referenced rule, a rule that lies on a cycle of such    *)
(* steps is R or is reached from R.  The message starts with R.            *)
(***************************************************************************)
RECURSIVE LeftmostRefs(_)
\* the rule names in leftmost position of prod
LeftmostRefs(prod) ==
    CASE prod.type = "Seq" ->
           IF prod.items = <<>> THEN {} ELSE LeftmostRefs(prod.items[1])
      [] prod.type = "Alt" -> UNION {LeftmostRefs(prod.alts[i]) : i \in 1..Len(prod.alts)}
      [] prod.type = "Group" -> LeftmostRefs(prod.inner)
      [] prod.type = "Repeat" ->
           IF prod.quant.min >= 1 THEN LeftmostRefs(prod.item) ELSE {}
      [] prod.type \in {"Terminal", "Class"} -> {}
      [] prod.type = "Ref" -> {prod.name}

\* the rules that one leftmost step from rule A leads to
LeftStep(g, A) == LeftmostRefs(get_rule(g, A)[1].production) \cap defined(g)

RECURSIVE LeftClosure(_, _)
\* the rules reached from the rules S by any number of leftmost steps
LeftClosure(g, S) ==
    LET T == S \cup UNION {LeftStep(g, A) : A \in S}
    IN IF T = S THEN S ELSE LeftClosure(g, T)

\* the rules reached from A by one or more leftmost steps
LeftReachable(g, A) == LeftClosure(g, LeftStep(g, A))
OnLeftCycle(g, A) == A \in LeftReachable(g, A)
LeftRecursiveFrom(g, R) == \E A \in {R} \cup LeftReachable(g, R) : OnLeftCycle(g, A)

ReportsLeftRecursion(R) ==
    \E i \in 1..Len(errors) : errors[i] \in LeftRecursionMessagesFor(grammar, R)

C19_LeftRecursionReported ==
    (validated /\ grammar.rules # <<>>)
    => \A R \in defined(grammar) :
          ReportsLeftRecursion(R) <=> LeftRecursiveFrom(grammar, R)

\* a rule that leads into a left recursion of another rule is reported, a
\* right-recursive rule next to it is not
C19_Witness ==
    /\ validated
    /\ \E R \in defined(grammar) :
          /\ ReportsLeftRecursion(R)
          /\ ~OnLeftCycle(grammar, R)
    /\ \E R \in defined(grammar) :
          /\ ~ReportsLeftRecursion(R)
          /\ CountRefs(get_rule(grammar, R)[1].production, R) = 1

(***************************************************************************)
(* C20.  validate returns a "cyclic dependency detected" message exactly   *)
(* when the reference graph of the grammar (an edge from A to B when the   *)
(* production of A holds a Ref to B anywhere) has a cycle all of whose     *)
(* rules hold no Terminal and no Class node, in whatever order the rules   *)
(* are declared and whatever other rules refer into the cycle.             *)
(***************************************************************************)
RECURSIVE NodeTypes(_)
\* the types of the nodes of prod
NodeTypes(prod) ==
    {prod.type} \cup
    CASE prod.type \in {"Seq", "Alt"} ->
           UNION {NodeTypes(Children(prod)[i]) : i \in 1..Len(Children(prod))}
      [] prod.type = "Group" -> NodeTypes(prod.inner)
      [] prod.type = "Repeat" -> NodeTypes(prod.item)
      [] OTHER -> {}

\* the rules whose production holds no Terminal and no Class node
PureRules(g) ==
    {A \in defined(g) :
        NodeTypes(get_rule(g, A)[1].production) \cap {"Terminal", "Class"} = {}}

\* the pure rules that the production of A refers to
PureStep(g, A) ==
    {B \in PureRules(g) : CountRefs(get_rule(g, A)[1].production, B) > 0}

RECURSIVE PureClosure(_, _)
PureClosure(g, S) ==
    LET T == S \cup UNION {PureStep(g, A) : A \in S}
    IN IF T = S THEN S ELSE PureClosure(g, T)

\* a cycle of references through pure rules only
HasPureReferenceCycle(g) ==
    \E A \in PureRules(g) : A \in PureClosure(g, PureStep(g, A))

ReportsCycle == \E i \in 1..Len(errors) : errors[i] \in CyclicMessages(grammar)

C20_PureCycleReported ==
    (validated /\ grammar.rules # <<>>)
    => (ReportsCycle <=> HasPureReferenceCycle(grammar))

(***************************************************************************)
(* C21.  For every byte position p within the input ingested so far,       *)
(* line_column(p) returns line = 1 + the number of newline bytes at        *)
(* offsets < p and column = p - (the offset just after the last newline    *)
(* before p, or 0) + 1; hence line >= 1, column >= 1, column = 1 exactly   *)
(* at line starts, line is non-decreasing in p and grows by one across     *)
(* each newline.  The line and column of every Token span are those of     *)
(* line_column(span.start).                                                *)
(***************************************************************************)
\* the bytes the reader has handed to the parser
Ingested == SubSeq(source, 1, rd)
\* the offsets just after a newline that lies before offset p
LineStartsBefore(text, p) == {i \in 1..Len(text) : i - 1 < p /\ text[i] = NL}
IsLineStart(text, p) == p = 0 \/ (p <= Len(text) /\ text[p] = NL)
LineOf(p) == line_column(line_tracker, p).line
ColumnOf(p) == line_column(line_tracker, p).column

C21_LineColumn ==
    /\ \A p \in 0..rd :
          LET starts == LineStartsBefore(Ingested, p)
          IN /\ LineOf(p) = 1 + Cardinality(starts)
             /\ ColumnOf(p) = p - (IF starts = {} THEN 0 ELSE SetMax(starts)) + 1
             /\ LineOf(p) >= 1
             /\ ColumnOf(p) >= 1
             /\ (ColumnOf(p) = 1 <=> IsLineStart(Ingested, p))
             /\ \A q \in p..rd : LineOf(p) <= LineOf(q)
             /\ (p < rd /\ Ingested[p + 1] = NL) => LineOf(p + 1) = LineOf(p) + 1
    /\ \A i \in 1..Len(out) :
          out[i].type = "Token"
          => /\ out[i].span.line = LineOf(out[i].span.start)
             /\ out[i].span.column = ColumnOf(out[i].span.start)

\* a token of the second line has been returned and the whole input, which
\* ends in the middle of that line, has been ingested
C21_Witness ==
    /\ rd = Len(source)
    /\ rd > 0
    /\ ColumnOf(rd) > 1
    /\ LineOf(rd) = 2
    /\ \E i \in 1..Len(out) : out[i].type = "Token" /\ out[i].span.line = 2

(***************************************************************************)
(* AstBuilder (ast/builder.rs 15-166) on the record                        *)
(* [stack, current_span_stack, rule_stack, metadata].  A pop returns the   *)
(* builder it leaves and its Option<AstNode>, a sequence of at most one    *)
(* node.  A String of input data is a sequence of characters.              *)
(***************************************************************************)
\* self.stack.last_mut().unwrap().push(node)
push_node(stack, node) == [stack EXCEPT ![Len(stack)] = Append(@, node)]

add_terminal(b, value, span) ==
    [b EXCEPT !.stack = push_node(@, Terminal(value, span)),
              !.metadata.token_count = @ + 1]

push_sequence(b, span) ==
    [b EXCEPT !.stack = Append(@, <<>>), !.current_span_stack = Append(@, span)]

push_alternation(b, span) ==
    [b EXCEPT !.stack = Append(@, <<>>), !.current_span_stack = Append(@, span)]

push_repetition(b, span) ==
    [b EXCEPT !.stack = Append(@, <<>>), !.current_span_stack = Append(@, span)]

push_rule(b, name) ==
    [b EXCEPT !.rule_stack = Append(@, name), !.stack = Append(@, <<>>)]

\* a pop_sequence that leaves an empty Sequence whatever the level held
pop_sequence_DropsNodes(b) ==
    IF Len(b.stack) <= 1 \/ b.current_span_stack = <<>>
    THEN [builder |-> b, ret |-> <<>>]
    ELSE LET node == Sequence(<<>>, Last(b.current_span_stack))
         IN [builder |-> [b EXCEPT !.stack = push_node(Front(@), node),
                                   !.current_span_stack = Front(@)],
             ret |-> <<node>>]

\* lines 40-57; the ? of line 45 returns after the stack has been popped
pop_sequence(b) ==
    IF Len(b.stack) <= 1
    THEN [builder |-> b, ret |-> <<>>]
    ELSE LET nodes == Last(b.stack)
             b1 == [b EXCEPT !.stack = Front(@)]
         IN IF b.current_span_stack = <<>>
            THEN [builder |-> b1, ret |-> <<>>]
            ELSE LET span == Last(b.current_span_stack)
                     node == IF Len(nodes) = 0 THEN Sequence(nodes, span)
                             ELSE IF Len(nodes) = 1 THEN nodes[1]
                             ELSE Sequence(nodes, span)
                 IN [builder |-> [b1 EXCEPT !.current_span_stack = Front(@),
                                            !.stack = push_node(@, node)],
                     ret |-> <<node>>]

\* lines 66-83
pop_alternation(b) ==
    IF Len(b.stack) <= 1
    THEN [builder |-> b, ret |-> <<>>]
    ELSE LET nodes == Last(b.stack)
             b1 == [b EXCEPT !.stack = Front(@)]
         IN IF b.current_span_stack = <<>>
            THEN [builder |-> b1, ret |-> <<>>]
            ELSE LET span == Last(b.current_span_stack)
                     node == IF Len(nodes) = 0 THEN Alternation(nodes, span)
                             ELSE IF Len(nodes) = 1 THEN nodes[1]
                             ELSE Alternation(nodes, span)
                 IN [builder |-> [b1 EXCEPT !.current_span_stack = Front(@),
                                            !.stack = push_node(@, node)],
                     ret |-> <<node>>]

\* lines 92-102
pop_repetition(b) ==
    IF Len(b.stack) <= 1
    THEN [builder |-> b, ret |-> <<>>]
    ELSE LET nodes == Last(b.stack)
             b1 == [b EXCEPT !.stack = Front(@)]
         IN IF b.current_span_stack = <<>>
            THEN [builder |-> b1, ret |-> <<>>]
            ELSE LET span == Last(b.current_span_stack)
                     node == Repetition(nodes, span)
                 IN [builder |-> [b1 EXCEPT !.current_span_stack = Front(@),
                                            !.stack = push_node(@, node)],
                     ret |-> <<node>>]

\* lines 111-133; the name is popped before the depth of the stack is looked at
pop_rule(b, span) ==
    IF b.rule_stack = <<>>
    THEN [builder |-> b, ret |-> <<>>]
    ELSE LET name == Last(b.rule_stack)
             b1 == [b EXCEPT !.rule_stack = Front(@)]
         IN IF Len(b.stack) <= 1
            THEN [builder |-> b1, ret |-> <<>>]
            ELSE LET nodes == Last(b.stack)
                     inner == IF Len(nodes) = 0 THEN Sequence(nodes, span)
                              ELSE IF Len(nodes) = 1 THEN nodes[1]
                              ELSE Sequence(nodes, span)
                     node == AstRule(name, inner, span)
                 IN [builder |-> [b1 EXCEPT !.stack = push_node(Front(@), node)],
                     ret |-> <<node>>]

RECURSIVE Decimal(_)
\* format!("{}", n) of a usize
Decimal(n) ==
    LET digits == <<"0", "1", "2", "3", "4", "5", "6", "7", "8", "9">>
    IN IF n < 10 THEN digits[n + 1] ELSE Decimal(n \div 10) \o digits[(n % 10) + 1]

\* Result<T, String>
Ok(value) == [ok |-> TRUE, value |-> value]
Err(message) == [ok |-> FALSE, value |-> message]

\* a build that accepts any builder with a node on top of its stack
build_IgnoresDepth(b, input_length) ==
    LET nodes == Last(b.stack)
    IN IF Len(nodes) = 0
       THEN Err("No nodes in AST")
       ELSE Ok([root |-> IF Len(nodes) = 1 THEN nodes[1]
                         ELSE Sequence(nodes, Span_new(0, input_length)),
                metadata |-> [b.metadata EXCEPT !.input_length = input_length,
                                                !.success = TRUE]])

\* lines 136-165
build(b, input_length) ==
    IF Len(b.stack) # 1
    THEN Err("Invalid builder state: stack has " \o Decimal(Len(b.stack))
             \o " levels, expected 1")
    ELSE LET nodes == b.stack[1]
         IN IF Len(nodes) = 0
            THEN Err("No nodes in AST")
            ELSE Ok([root |-> IF Len(nodes) = 1 THEN nodes[1]
                              ELSE Sequence(nodes, Span_new(0, input_length)),
                     metadata |-> [b.metadata EXCEPT !.input_length = input_length,
                                                     !.success = TRUE]])

(***************************************************************************)
(* Ast::collect_terminals (ast/node.rs 98-116).                            *)
(***************************************************************************)
RECURSIVE walk_terminals(_, _)
RECURSIVE walk_terminals_of(_, _)
walk_terminals(node, acc) ==
    CASE node.node = "Terminal" -> Append(acc, node.value)
      [] node.node \in {"Sequence", "Alternation", "Repetition"} ->
           walk_terminals_of(node.nodes, acc)
      [] node.node = "Rule" -> walk_terminals(node.inner, acc)

\* for n in nodes { self.walk_terminals(n, acc) }
walk_terminals_of(nodes, acc) ==
    IF nodes = <<>> THEN acc
    ELSE walk_terminals_of(Tail(nodes), walk_terminals(Head(nodes), acc))

collect_terminals(ast) == walk_terminals(ast.root, <<>>)

(***************************************************************************)
(* ast::parse_str (ast.rs 122-149): the loop over the events of the engine *)
(* and the final build.                                                    *)
(***************************************************************************)
RECURSIVE parse_events(_, _, _)
parse_events(b, evs, input_length) ==
    IF evs = <<>> THEN build(b, input_length)
    ELSE LET event == Head(evs)
         IN CASE event.type = "Token" ->
                   parse_events(add_terminal(b, event.text, event.span), Tail(evs),
                                input_length)
              [] event.type = "Error" ->
                   Err("Parse error at position " \o Decimal(event.position)
                       \o ": " \o event.message)
              [] OTHER -> parse_events(b, Tail(evs), input_length)

\* the values the iterator of ebnf::parse_str yields before its first None
RECURSIVE UntilNone(_)
UntilNone(evs) ==
    IF evs = <<>> \/ Head(evs).type = "None" THEN <<>>
    ELSE <<Head(evs)>> \o UntilNone(Tail(evs))

\* what ast::parse_str(grammar, source) returns once the engine has run dry
ast_parse_str == parse_events(AstBuilder_new, UntilNone(out), Len(source))

(***************************************************************************)
(* C22.  When the grammar matches the input exactly (the stream ends       *)
(* without Error and the cursor stands at the end of the input, the empty  *)
(* input included), ast::parse_str returns Ok, the concatenation of        *)
(* collect_terminals() is the input, and the terminals are the payloads of *)
(* the Token events in their order.                                        *)
(***************************************************************************)
RECURSIVE Flatten(_)
Flatten(texts) == IF texts = <<>> THEN <<>> ELSE Head(texts) \o Flatten(Tail(texts))
IsToken(e) == e.type = "Token"
\* the payloads of the Token events returned, in order
TokenTexts == [i \in 1..Len(SelectSeq(out, IsToken)) |-> SelectSeq(out, IsToken)[i].text]
\* ast::parse_str reads its input through a Cursor, which hands out all of
\* it in one fill_buf
ReadThroughCursor == chunk >= Len(source)
MatchedExactly ==
    /\ ReadThroughCursor
    /\ StreamEnded
    /\ ~HasError(Delivered)
    /\ window_start + pos = Len(source)

C22_TerminalsReproduceInput ==
    MatchedExactly
    => /\ ast_parse_str.ok
       /\ Flatten(collect_terminals(ast_parse_str.value)) = source
       /\ collect_terminals(ast_parse_str.value) = TokenTexts

(***************************************************************************)
(* A caller of AstBuilder: any sequence of up to MaxCalls calls of         *)
(* add_terminal, push_* and pop_*, then build.  The spans are the          *)
(* caller's: a terminal spans its bytes after the terminals added before,  *)
(* a context opens where the next terminal starts, a rule closes where     *)
(* the last one ended.                                                     *)
(***************************************************************************)
Values == {<<"a">>, <<"b">>}
\* the values handed to add_terminal, in call order
RECURSIVE AddedValues(_)
AddedValues(cs) ==
    IF cs = <<>> THEN <<>>
    ELSE (IF Head(cs).op = "add_terminal" THEN <<Head(cs).arg>> ELSE <<>>)
         \o AddedValues(Tail(cs))
\* the offset after the terminals added so far
NextOffset == Len(Flatten(AddedValues(calls)))

InitBuilder ==
    /\ grammar = G_StrA
    /\ source = <<>>
    /\ chunk = 1
    /\ LET s == new(grammar, TRUE)
       IN /\ rd = s.rd
          /\ input = s.input
          /\ pos = s.pos
          /\ window_start = s.window_start
          /\ frames = s.frames
          /\ events = s.events
          /\ line_tracker = s.line_tracker
          /\ finished = s.finished
          /\ eof = s.eof
    /\ pc = "idle"
    /\ out = <<>>
    /\ panicked = FALSE
    /\ errors = <<>>
    /\ validated = FALSE
    /\ builder = AstBuilder_new
    /\ calls = <<>>
    /\ built = <<>>
    /\ runtime = <<>>

CanCall == built = <<>> /\ Len(calls) < MaxCalls

\* the call op(arg) left the builder b and returned ret
Called(op, arg, b, ret) ==
    /\ builder' = b
    /\ calls' = Append(calls, [op |-> op, arg |-> arg, ret |-> ret])
    /\ UNCHANGED <<runtime, built, grammar, source, chunk, rd, input, pos, window_start, frames,
                   events, line_tracker, finished, eof, pc, out, panicked, errors,
                   validated>>

AddTerminal ==
    /\ CanCall
    /\ \E value \in Values :
          Called("add_terminal", value,
                 add_terminal(builder, value, Span_new(NextOffset, NextOffset + Len(value))),
                 <<>>)

PushSequence ==
    /\ CanCall
    /\ LET span == Span_new(NextOffset, NextOffset)
       IN Called("push_sequence", span, push_sequence(builder, span), <<>>)

PopSequence ==
    /\ CanCall
    /\ LET r == pop_sequence(builder)
       IN Called("pop_sequence", <<>>, r.builder, r.ret)

PushAlternation ==
    /\ CanCall
    /\ LET span == Span_new(NextOffset, NextOffset)
       IN Called("push_alternation", span, push_alternation(builder, span), <<>>)

PopAlternation ==
    /\ CanCall
    /\ LET r == pop_alternation(builder)
       IN Called("pop_alternation", <<>>, r.builder, r.ret)

PushRepetition ==
    /\ CanCall
    /\ LET span == Span_new(NextOffset, NextOffset)
       IN Called("push_repetition", span, push_repetition(builder, span), <<>>)

PopRepetition ==
    /\ CanCall
    /\ LET r == pop_repetition(builder)
       IN Called("pop_repetition", <<>>, r.builder, r.ret)

PushRule ==
    /\ CanCall
    /\ Called("push_rule", "start", push_rule(builder, "start"), <<>>)

PopRule ==
    /\ CanCall
    /\ LET span == Span_new(0, NextOffset)
           r == pop_rule(builder, span)
       IN Called("pop_rule", span, r.builder, r.ret)

\* build consumes the builder
Build ==
    /\ built = <<>>
    /\ \E input_length \in {NextOffset, NextOffset + 1} :
          /\ built' = <<build(builder, input_length)>>
          /\ calls' = Append(calls, [op |-> "build", arg |-> input_length, ret |-> <<>>])
    /\ UNCHANGED <<runtime, builder, grammar, source, chunk, rd, input, pos, window_start, frames,
                   events, line_tracker, finished, eof, pc, out, panicked, errors,
                   validated>>

NextBuilder ==
    \/ AddTerminal
    \/ PushSequence
    \/ PopSequence
    \/ PushAlternation
    \/ PopAlternation
    \/ PushRepetition
    \/ PopRepetition
    \/ PushRule
    \/ PopRule
    \/ Build

SpecBuilder == InitBuilder /\ [][NextBuilder]_vars

\* the calls made before build
IsBuilderCall(c) == c.op # "build"
BuilderCalls == SelectSeq(calls, IsBuilderCall)
Pushes == {"push_sequence", "push_alternation", "push_repetition", "push_rule"}
Pops == {"pop_sequence", "pop_alternation", "pop_repetition", "pop_rule"}
\* the kind of context a push opens and a pop closes
KindOf(op) ==
    CASE op \in {"push_sequence", "pop_sequence"} -> "sequence"
      [] op \in {"push_alternation", "pop_alternation"} -> "alternation"
      [] op \in {"push_repetition", "pop_repetition"} -> "repetition"
      [] op \in {"push_rule", "pop_rule"} -> "rule"
\* every push of cs is closed by the pop of its kind, given the kinds open
RECURSIVE Nested(_, _)
Nested(cs, open) ==
    IF cs = <<>> THEN open = <<>>
    ELSE LET op == Head(cs).op
         IN CASE op \in Pushes -> Nested(Tail(cs), Append(open, KindOf(op)))
              [] op \in Pops ->
                   /\ open # <<>>
                   /\ Last(open) = KindOf(op)
                   /\ Nested(Tail(cs), Front(open))
              [] OTHER -> Nested(Tail(cs), open)
WellNested == Nested(BuilderCalls, <<>>)

RECURSIVE CountTerminals(_)
RECURSIVE CountTerminalsOf(_)
\* the number of Terminal nodes of the tree under node
CountTerminals(node) ==
    CASE node.node = "Terminal" -> 1
      [] node.node = "Rule" -> CountTerminals(node.inner)
      [] OTHER -> CountTerminalsOf(node.nodes)
CountTerminalsOf(nodes) ==
    IF nodes = <<>> THEN 0
    ELSE CountTerminals(Head(nodes)) + CountTerminalsOf(Tail(nodes))

(***************************************************************************)
(* C23.  After a well-nested sequence of AstBuilder calls (every push      *)
(* closed by the pop of its kind) with at least one add_terminal, build    *)
(* succeeds, collect_terminals() of the result lists the add_terminal      *)
(* values in call order, and metadata.token_count is the number of         *)
(* add_terminal calls and the number of Terminal nodes of the tree.        *)
(***************************************************************************)
C23_WellNestedCallsBuild ==
    (built # <<>> /\ WellNested /\ AddedValues(calls) # <<>>)
    => /\ built[1].ok
       /\ collect_terminals(built[1].value) = AddedValues(calls)
       /\ built[1].value.metadata.token_count = Len(AddedValues(calls))
       /\ built[1].value.metadata.token_count = CountTerminals(built[1].value.root)

\* built from two terminals inside a sequence, as test_ast_collect_terminals
C23_Witness ==
    /\ built # <<>>
    /\ WellNested
    /\ Len(AddedValues(calls)) = 2
    /\ \E i \in 1..Len(calls) : calls[i].op = "pop_sequence" /\ calls[i].ret # <<>>
    /\ built[1].ok
    /\ built[1].value.root.node = "Sequence"

(***************************************************************************)
(* C24.  AstBuilder::build returns an error exactly when the context stack *)
(* is not at depth 1 or its single level holds no node; otherwise it       *)
(* returns Ok with root = the single node, unwrapped, or a Sequence of the *)
(* nodes spanning 0..input_length, and with metadata.input_length =        *)
(* input_length and metadata.success = true.                               *)
(***************************************************************************)
C24_BuildErrorsExactlyOnBadState ==
    built # <<>>
    => LET input_length == Last(calls).arg
           r == built[1]
       IN /\ ~r.ok <=> (Len(builder.stack) # 1 \/ Len(builder.stack[1]) = 0)
          /\ r.ok =>
               LET nodes == builder.stack[1]
                   ast == r.value
               IN /\ IF Len(nodes) = 1
                     THEN ast.root = nodes[1]
                     ELSE /\ ast.root.node = "Sequence"
                          /\ ast.root.nodes = nodes
                          /\ ast.root.span = Span_new(0, input_length)
                  /\ ast.metadata.input_length = input_length
                  /\ ast.metadata.success = TRUE

\* build was called with a context still open that holds a terminal
C24_Witness ==
    /\ built # <<>>
    /\ ~built[1].ok
    /\ Len(builder.stack) = 2
    /\ Len(builder.stack[2]) = 1
    /\ builder.stack[2][1].node = "Terminal"

(***************************************************************************)
(* C25.  ast::parse_str returns Err exactly when the event stream of the   *)
(* engine contains an Error event, and the error string then carries the   *)
(* position and the message of that event ("Parse error at position P:     *)
(* M"); when the stream ends without Error it returns Ok with the AST and  *)
(* metadata.success = true.                                                *)
(***************************************************************************)
\* the Error events of the stream
ErrorsOf(evs) == SelectSeq(evs, LAMBDA e : e.type = "Error")

C25_ErrExactlyOnErrorEvent ==
    (ReadThroughCursor /\ StreamEnded)
    => LET r == ast_parse_str
           errs == ErrorsOf(UntilNone(out))
       IN /\ ~r.ok <=> errs # <<>>
          /\ errs # <<>> =>
               r.value = "Parse error at position " \o Decimal(errs[1].position)
                         \o ": " \o errs[1].message
          /\ errs = <<>> => (r.ok /\ r.value.metadata.success = TRUE)

(***************************************************************************)
(* trait Visitor (ast/visitor.rs 44-89) as functions of the visitor's      *)
(* state v = [reached, values]: reached lists the nodes visit_node was     *)
(* called on, values is the field of a visitor that overrides              *)
(* visit_terminal only and pushes each value (the ValueCollector of        *)
(* test_visitor_collects_values).                                          *)
(***************************************************************************)
Visitor_new == [reached |-> <<>>, values |-> <<>>]

\* a visit_rule that does not descend into the rule's node
visit_rule_SkipsInner(v, name, node, span) == v

RECURSIVE visit_node(_, _)
RECURSIVE visit_nodes(_, _)
RECURSIVE visit_sequence(_, _, _)
RECURSIVE visit_alternation(_, _, _)
RECURSIVE visit_repetition(_, _, _)
RECURSIVE visit_rule(_, _, _, _)

\* the override: self.values.push(value.to_string())
visit_terminal(v, value, span) == [v EXCEPT !.values = Append(@, value)]

\* lines 51-59
visit_node(v, node) ==
    LET v1 == [v EXCEPT !.reached = Append(@, node)]
    IN CASE node.node = "Terminal" -> visit_terminal(v1, node.value, node.span)
         [] node.node = "Sequence" -> visit_sequence(v1, node.nodes, node.span)
         [] node.node = "Alternation" -> visit_alternation(v1, node.nodes, node.span)
         [] node.node = "Repetition" -> visit_repetition(v1, node.nodes, node.span)
         [] node.node = "Rule" -> visit_rule(v1, node.name, node.inner, node.span)

\* for node in nodes { self.visit_node(node) }
visit_nodes(v, nodes) ==
    IF nodes = <<>> THEN v ELSE visit_nodes(visit_node(v, Head(nodes)), Tail(nodes))

visit_sequence(v, nodes, span) == visit_nodes(v, nodes)
visit_alternation(v, nodes, span) == visit_nodes(v, nodes)
visit_repetition(v, nodes, span) == visit_nodes(v, nodes)
visit_rule(v, name, node, span) == visit_node(v, node)

visit_ast(v, ast) == visit_node(v, ast.root)

(***************************************************************************)
(* The nodes of a tree by position: a path is the sequence of child        *)
(* indices from the root; depth-first, left-to-right order is the          *)
(* lexicographic order of the paths, a node before its descendants.        *)
(***************************************************************************)
ChildrenOf(node) ==
    CASE node.node = "Terminal" -> <<>>
      [] node.node = "Rule" -> <<node.inner>>
      [] OTHER -> node.nodes
RECURSIVE PathsOf(_)
PathsOf(node) ==
    {<<>>} \cup UNION {{<<i>> \o p : p \in PathsOf(ChildrenOf(node)[i])} :
                          i \in 1..Len(ChildrenOf(node))}
RECURSIVE NodeAt(_, _)
NodeAt(node, path) ==
    IF path = <<>> THEN node ELSE NodeAt(ChildrenOf(node)[Head(path)], Tail(path))
RECURSIVE PathBefore(_, _)
PathBefore(p, q) ==
    IF p = <<>> THEN q # <<>>
    ELSE IF q = <<>> THEN FALSE
    ELSE IF Head(p) # Head(q) THEN Head(p) < Head(q)
    ELSE PathBefore(Tail(p), Tail(q))
\* the paths of the tree in depth-first, left-to-right order
DepthFirst(node) ==
    LET paths == PathsOf(node)
    IN [k \in 1..Cardinality(paths) |->
          CHOOSE p \in paths : Cardinality({q \in paths : PathBefore(q, p)}) = k - 1]

(***************************************************************************)
(* C26.  Visiting a tree with a Visitor that overrides no traversal hook   *)
(* reaches every node exactly once, in depth-first, left-to-right order; a *)
(* visitor that overrides only visit_terminal is called once per Terminal  *)
(* node, in the order of collect_terminals().                              *)
(***************************************************************************)
C26_VisitorReachesEveryNodeOnce ==
    (built # <<>> /\ built[1].ok)
    => LET ast == built[1].value
           v == visit_ast(Visitor_new, ast)
           order == DepthFirst(ast.root)
       IN /\ Len(v.reached) = Len(order)
          /\ \A k \in 1..Len(order) : v.reached[k] = NodeAt(ast.root, order[k])
          /\ v.values = collect_terminals(ast)
          /\ Len(v.values) = CountTerminals(ast.root)

\* the tree is a Sequence of a Rule around a terminal and a second terminal
C26_Witness ==
    /\ built # <<>>
    /\ built[1].ok
    /\ built[1].value.root.node = "Sequence"
    /\ Len(built[1].value.root.nodes) = 2
    /\ built[1].value.root.nodes[1].node = "Rule"
    /\ built[1].value.root.nodes[2].node = "Terminal"
    /\ Len(visit_ast(Visitor_new, built[1].value).reached) = 4
    /\ Len(visit_ast(Visitor_new, built[1].value).values) = 2

(***************************************************************************)
(* C27.  The "left recursion detected: ..." message of validate lists the  *)
(* DFS path that closes the recursion: the rule names from the rule being  *)
(* checked up to and including the repeated rule, in order, joined by      *)
(* " -> " (for a = b; b = a checked from a: "a -> b -> a").                *)
(***************************************************************************)
RECURSIVE ClosingPathFrom(_, _, _)
RECURSIVE ClosingPathIn(_, _, _)
RECURSIVE FirstClosingPath(_, _, _)
\* the leftmost descent from rule_name below the rules of path: the path up
\* to and including the first rule met twice, or <<>> when no rule repeats
ClosingPathFrom(g, rule_name, path) ==
    IF \E i \in 1..Len(path) : path[i] = rule_name
    THEN Append(path, rule_name)
    ELSE IF rule_map_get(g, rule_name) = <<>> THEN <<>>
    ELSE ClosingPathIn(g, rule_map_get(g, rule_name)[1], Append(path, rule_name))
ClosingPathIn(g, prod, path) ==
    CASE prod.type = "Seq" ->
           IF prod.items = <<>> THEN <<>> ELSE ClosingPathIn(g, prod.items[1], path)
      [] prod.type = "Alt" -> FirstClosingPath(g, prod.alts, path)
      [] prod.type = "Group" -> ClosingPathIn(g, prod.inner, path)
      [] prod.type = "Repeat" ->
           IF prod.quant.min = 0 THEN <<>> ELSE ClosingPathIn(g, prod.item, path)
      [] prod.type \in {"Terminal", "Class"} -> <<>>
      [] prod.type = "Ref" -> ClosingPathFrom(g, prod.name, path)
FirstClosingPath(g, alts, path) ==
    IF alts = <<>> THEN <<>>
    ELSE IF ClosingPathIn(g, Head(alts), path) # <<>>
    THEN ClosingPathIn(g, Head(alts), path)
    ELSE FirstClosingPath(g, Tail(alts), path)

C27_MessageListsClosingPath ==
    validated
    => \A i \in 1..Len(grammar.rules) :
          LET closing == ClosingPathFrom(grammar, grammar.rules[i].name, <<>>)
          IN closing # <<>>
             => \E k \in 1..Len(errors) :
                   errors[k] = "left recursion detected: " \o join(closing, " -> ")

(***************************************************************************)
(* C28.  In every reachable state of the engine pos <= the length of the   *)
(* buffer, and every Alt or Repeat frame on the frame stack has            *)
(* saved_pos <= pos; both hold across Alt position restores and window     *)
(* slides.                                                                 *)
(***************************************************************************)
C28_CursorAndSavedPositions ==
    /\ pos <= Len(input)
    /\ \A i \in 1..Len(frames) : HasSavedPos(frames[i]) => frames[i].saved_pos <= pos

\* an Alt that was activated at absolute position 2 has restored the cursor
\* after the window had slid under it
C28_Witness ==
    /\ window_start > 0
    /\ pc = "after_step"
    /\ \E i \in 1..Len(frames) :
          /\ frames[i].frame = "Alt"
          /\ frames[i].idx = 2
          /\ frames[i].saved_pos = pos
    /\ pos < Len(input)

(***************************************************************************)
(* C29.  Whenever an Alt frame restores the cursor to try another          *)
(* alternative, current_position() immediately afterwards is the absolute  *)
(* position the cursor had when that Alt was first activated, also when    *)
(* the window has slid between the activation and the restore.  An Alt     *)
(* frame leaves the stack only through fail, so the Alt frame at a given   *)
(* depth is one activation for as long as an Alt frame stands there.       *)
(***************************************************************************)
\* the Alt frame on top is stepped for the first time
AltActivates == CanStep /\ frames # <<>> /\ Last(frames).frame = "Alt" /\ Last(frames).idx = 0
\* the Alt frame on top is stepped again with alternatives left
AltRestores == CanStep /\ frames # <<>> /\ OpenAlt(Last(frames))
ActivatedAlt(f) == f.frame = "Alt" /\ f.idx >= 1

C29_AltRestoresEntryPosition ==
    [][/\ (AltActivates /\ ~panicked')
          => /\ ActivatedAlt(frames'[Len(frames)])
             /\ window_start' + frames'[Len(frames)].saved_pos = window_start + pos
       /\ \A i \in 1..Len(frames) :
             (i <= Len(frames') /\ ActivatedAlt(frames[i]) /\ ActivatedAlt(frames'[i]))
             => window_start' + frames'[i].saved_pos = window_start + frames[i].saved_pos
       /\ AltRestores
          => window_start' + pos' = window_start + Last(frames).saved_pos]_vars

\* the Alt activated at absolute position 2, before the slide, has restored
\* the cursor to absolute position 2 after it
C29_Witness ==
    /\ grammar = G_ABThenAorB
    /\ window_start > 0
    /\ pc = "after_step"
    /\ frames # <<>>
    /\ Last(frames).frame = "Terminal"
    /\ Len(frames) >= 2
    /\ frames[Len(frames) - 1].frame = "Alt"
    /\ frames[Len(frames) - 1].idx = 2
    /\ window_start + pos = 2

(***************************************************************************)
(* C30.  A Repeat whose item completes without advancing the cursor (an    *)
(* empty Seq, a nested Repeat that matches nothing) stops after that       *)
(* attempt instead of looping: the Repeat frame is not pushed again; it    *)
(* succeeds if count >= min and fails with "repeat did not satisfy minimum *)
(* occurrences" otherwise, count being the number of attempts that         *)
(* advanced the cursor.                                                    *)
(***************************************************************************)
\* the Repeat frame on top is stepped after an attempt of its item
AttemptCompleted == CanStep /\ frames # <<>> /\ Last(frames).frame = "Repeat" /\ ~Last(frames).trying
\* the Repeat frame on top is stepped before an attempt
AttemptStarts ==
    /\ CanStep
    /\ frames # <<>>
    /\ Last(frames).frame = "Repeat"
    /\ Last(frames).trying
    /\ \A max \in Last(frames).quant.max : Last(frames).count < max

C30_ZeroProgressRepeatStops ==
    [][/\ (AttemptCompleted /\ pos <= Last(frames).saved_pos)
          => /\ frames' = Front(frames)
             /\ pos' = pos
             /\ IF Last(frames).count >= Last(frames).quant.min
                THEN events' = events /\ finished' = finished
                ELSE /\ finished'
                     /\ events' = Append(events,
                           ErrorEv("failed to match: repeat did not satisfy minimum occurrences",
                                   window_start + pos, {fail_ctx(Front(frames))}))
       /\ (AttemptCompleted /\ pos > Last(frames).saved_pos)
          => /\ Len(frames') = Len(frames)
             /\ Last(frames').frame = "Repeat"
             /\ Last(frames').count = Last(frames).count + 1
       /\ AttemptStarts
          => /\ frames'[Len(frames)].frame = "Repeat"
             /\ frames'[Len(frames)].count = Last(frames).count
             /\ frames'[Len(frames)].saved_pos = pos]_vars

\* start = {{()}} (())+ : the inner Repeat has stopped after one attempt of
\* the empty sequence and succeeded, the outer one has stopped after that
\* attempt of the inner one and succeeded, the last one has stopped and failed
C30_Witness ==
    /\ grammar = G_NullableRepeats
    /\ StreamEnded
    /\ Len(Delivered) = 2
    /\ Delivered[1] = StartEv("start")
    /\ Delivered[2] = ErrorEv("failed to match: repeat did not satisfy minimum occurrences",
                              0, {"start"})

(***************************************************************************)
(* C31.  A Repeat with max = Some(n) never matches its item more than n    *)
(* times: once n attempts have advanced the cursor the frame succeeds      *)
(* without attempting the item again, so no further input is consumed and  *)
(* no failure of a further attempt is reported (for "a" 'b'? on "abb" the  *)
(* stream is Start, Token a, Token b, End).                                *)
(***************************************************************************)
\* the Repeat frame on top is stepped before an attempt with count at max
RepeatAtMax ==
    /\ CanStep
    /\ frames # <<>>
    /\ Last(frames).frame = "Repeat"
    /\ Last(frames).trying
    /\ \E max \in Last(frames).quant.max : Last(frames).count >= max
\* the types of the events returned
TypesOf(evs) == [i \in 1..Len(evs) |-> evs[i].type]

C31_RepeatStopsAtMax ==
    [][/\ \A i \in 1..Len(frames') :
             frames'[i].frame = "Repeat"
             => \A max \in frames'[i].quant.max : frames'[i].count <= max
       /\ RepeatAtMax
          => /\ frames' = Front(frames)
             /\ pos' = pos
             /\ window_start' = window_start
             /\ events' = events
             /\ finished' = finished
       /\ (grammar = G_AOptB /\ source = <<"a", "b", "b">> /\ StreamEnded')
          => /\ TypesOf(Delivered') = <<"Start", "Token", "Token", "End">>
             /\ TokenTexts' = << <<"a">>, <<"b">> >>
             /\ window_start' + pos' = 2]_vars

\* "a" 'b'? has run on "abb": the optional b was matched once, the second b
\* was left alone and the stream has ended
C31_Witness ==
    /\ grammar = G_AOptB
    /\ source = <<"a", "b", "b">>
    /\ StreamEnded
    /\ Len(Delivered) = 4
    /\ window_start + pos = 2

(***************************************************************************)
(* C32.  A window slide drains exactly m bytes, m the least saved_pos of   *)
(* the Alt and Repeat frames on the stack (pos when there is none).  It    *)
(* leaves unchanged current_position(), the absolute position              *)
(* window_start + saved_pos of every such frame, the bytes at and after    *)
(* absolute offset window_start + m, the shape of the frame stack and the  *)
(* event queue.  No slide happens unless the buffer holds more than        *)
(* MAX_BUFFER_SIZE bytes and pos > MIN_SLIDE_SIZE.                         *)
(***************************************************************************)
\* the saved positions of the frames under the top
SavedPositions ==
    {frames[i].saved_pos : i \in {j \in 1..Len(frames) - 1 : HasSavedPos(frames[j])}}
\* the step has slid the window
Slid == window_start' # window_start
\* the record a step hands to ensure_buffer, and what the slide makes of it
BeforeSlide == BufState(Front(frames))
AfterSlide == slide(BeforeSlide)

C32_SlideDrainsToLeastSavedPos ==
    [][Slid =>
         LET m == window_start' - window_start
         IN /\ Len(input) > MAX_BUFFER_SIZE
            /\ pos > MIN_SLIDE_SIZE
            /\ m = (IF SavedPositions = {} THEN pos ELSE SetMin(SavedPositions))
            /\ m > 0
            \* the slide itself: cursor, buffer, frames
            /\ AfterSlide.window_start = window_start'
            /\ current_position(AfterSlide) = window_start + pos
            /\ AfterSlide.input = SubSeq(input, m + 1, Len(input))
            \* what the step leaves: the bytes from window_start + m on
            /\ Len(input') >= Len(input) - m
            /\ \A k \in (m + 1)..Len(input) : input'[k - m] = input[k]
            \* the frames under the popped terminal, saved positions absolute
            /\ Len(frames') = Len(frames) - 1
            /\ \A i \in 1..Len(frames') :
                  /\ frames'[i].frame = frames[i].frame
                  /\ HasSavedPos(frames[i])
                     => /\ window_start' + frames'[i].saved_pos
                             = window_start + frames[i].saved_pos
                        /\ frames'[i] = [frames[i] EXCEPT !.saved_pos = @ - m]
                  /\ ~HasSavedPos(frames[i]) => frames'[i] = frames[i]
            \* the queue holds what it held, then the event of the step
            /\ Len(events') <= Len(events) + 1
            /\ SubSeq(events', 1, Len(events)) = events
            \* the cursor has moved by the token consumed and no more
            /\ window_start' + pos'
                 = window_start + pos
                   + (IF events' # <<>> /\ Last(events').type = "Token"
                      THEN Len(Last(events').text) ELSE 0)]_vars

\* the window has slid under a Repeat frame that had saved a position before
\* the cursor: the drained bytes end at that position, not at the cursor
C32_Witness ==
    /\ window_start > 0
    /\ pc = "after_step"
    /\ events # <<>>
    /\ Last(events).type = "Token"
    /\ Last(events).span.start > window_start
    /\ \E i \in 1..Len(frames) :
          /\ frames[i].frame = "Repeat"
          /\ frames[i].saved_pos = 0
          /\ pos > Len(Last(events).text)

(***************************************************************************)
(* C33.  After any sequence of extend(chunk) calls the line-start list of  *)
(* the tracker is the one LineColumnTracker::new builds on the             *)
(* concatenation of the chunks: it starts with 0, is strictly increasing   *)
(* and holds i + 1 exactly for the offsets i of the newlines, wherever the *)
(* chunk boundaries fall.                                                  *)
(***************************************************************************)
RECURSIVE ExtendedBy(_, _, _)
\* the tracker after text has been handed to extend in chunks of c bytes
ExtendedBy(lt, text, c) ==
    IF text = <<>> THEN lt
    ELSE LET n == IF c < Len(text) THEN c ELSE Len(text)
         IN ExtendedBy(LT_extend(lt, SubSeq(text, 1, n)),
                       SubSeq(text, n + 1, Len(text)), c)

C33_ExtendEqualsNew ==
    LET positions == line_tracker.positions
    IN /\ line_tracker = LT_new(Ingested)
       /\ positions[1] = 0
       /\ \A i \in 1..Len(positions) - 1 : positions[i] < positions[i + 1]
       /\ \A p \in 1..rd :
             (\E i \in 1..Len(positions) : positions[i] = p) <=> Ingested[p] = NL
       /\ \A i \in 1..Len(positions) : positions[i] \in 0..rd
       \* any other chunking of the same bytes gives the same tracker
       /\ \A c \in 1..MaxChunk : ExtendedBy(LT_new(<<>>), Ingested, c) = line_tracker
       /\ \A k \in 0..rd :
             LT_extend(LT_new(SubSeq(Ingested, 1, k)), SubSeq(Ingested, k + 1, rd))
               = line_tracker

\* the reader has been asked more than once and a later chunk held a newline
C33_Witness ==
    /\ rd > chunk
    /\ Len(line_tracker.positions) >= 2
    /\ Last(line_tracker.positions) > chunk + 1
    /\ line_tracker = LT_new(Ingested)

(***************************************************************************)
(* C34.  pop_sequence, pop_alternation and pop_repetition close a context  *)
(* the same way: with exactly one collected node that node is added to the *)
(* parent unwrapped, otherwise the collected nodes become one Sequence /   *)
(* Alternation / Repetition child of the parent.  pop_rule always adds a   *)
(* Rule{name, child} whose child is the single node unwrapped or a         *)
(* Sequence of the nodes.                                                  *)
(***************************************************************************)
\* the call just made
LastCall == Last(calls')
\* the call just made was op and returned Some(node)
Closed(op) == calls' # calls /\ LastCall.op = op /\ LastCall.ret # <<>>
\* the level that was closed and the node a close of that kind makes of it
Collected == Last(builder.stack)
WrappedAs(op, span) ==
    CASE op = "pop_sequence" -> Sequence(Collected, span)
      [] op = "pop_alternation" -> Alternation(Collected, span)
      [] op = "pop_repetition" -> Repetition(Collected, span)
\* the parent level has gained node and the closed level is gone
AddedToParent(node) ==
    /\ Len(builder.stack) >= 2
    /\ builder'.stack = push_node(Front(builder.stack), node)
    /\ LastCall.ret = <<node>>
\* a close of a sequence, alternation or repetition context
ClosesSymmetrically(op) ==
    Closed(op)
    => /\ builder.current_span_stack # <<>>
       /\ AddedToParent(IF Len(Collected) = 1 THEN Collected[1]
                        ELSE WrappedAs(op, Last(builder.current_span_stack)))
\* a close of a rule context
ClosesRule ==
    Closed("pop_rule")
    => /\ builder.rule_stack # <<>>
       /\ AddedToParent(AstRule(Last(builder.rule_stack),
                                IF Len(Collected) = 1 THEN Collected[1]
                                ELSE Sequence(Collected, LastCall.arg),
                                LastCall.arg))

C34_PopsCloseSymmetrically ==
    [][/\ ClosesSymmetrically("pop_sequence")
       /\ ClosesSymmetrically("pop_alternation")
       /\ ClosesSymmetrically("pop_repetition")
       /\ ClosesRule]_vars

(***************************************************************************)
(* C35.  A pop_sequence, pop_alternation, pop_repetition or pop_rule call  *)
(* that returns None leaves the builder unchanged: the context stack, the  *)
(* span stack, the rule-name stack and token_count are what they were      *)
(* before the call, so a mismatched pop loses no collected node and no     *)
(* rule name (for example push_rule, add_terminal, pop_sequence).          *)
(***************************************************************************)
\* the call just made was a pop that returned None
PopReturnedNone ==
    /\ calls' # calls
    /\ LastCall.op \in {"pop_sequence", "pop_alternation", "pop_repetition", "pop_rule"}
    /\ LastCall.ret = <<>>

C35_NonePopLeavesBuilderUnchanged ==
    [][PopReturnedNone
       => /\ builder'.stack = builder.stack
          /\ builder'.current_span_stack = builder.current_span_stack
          /\ builder'.rule_stack = builder.rule_stack
          /\ builder'.metadata.token_count = builder.metadata.token_count]_vars

(***************************************************************************)
(* C36.  The internal event queue never holds more than one undelivered    *)
(* event: every step enqueues at most one event, next_event returns it     *)
(* before another step runs, and the queue is empty whenever a step starts.*)
(***************************************************************************)
\* the transition is a run of Parser::step
IsStep == pc \in {"idle", "loop"} /\ pc' = "after_step"
\* the transition is next_event handing out the head of the queue
Delivers == events' = Tail(events) /\ out' = Append(out, Head(events)) /\ pc' = "idle"

C36_QueueHoldsAtMostOne ==
    [][/\ Len(events) <= 1
       /\ Len(events') <= 1
       /\ IsStep => /\ events = <<>>
                    /\ Len(events') <= Len(events) + 1
       \* a queued event is returned before anything else happens
       /\ events # <<>> => /\ Delivers
                           /\ UNCHANGED <<frames, pos, input, window_start, finished>>]_vars

\* a step has left an event in the queue, not yet returned
C36_Witness ==
    /\ pc = "after_step"
    /\ Len(events) = 1
    /\ out # <<>>
    /\ ~finished

(***************************************************************************)
(* C37.  For a given grammar and ASCII input the event stream (kinds,      *)
(* payloads, spans with line and column, error position) does not depend   *)
(* on how the reader chunks the bytes: one byte per fill_buf, the whole    *)
(* input at once and everything between give the same events, also when a *)
(* Str terminal straddles a chunk boundary.                                *)
(***************************************************************************)
\* BufReader::with_capacity(capacity, ..) handed to Parser::new
new_with_capacity(g, capacity) == [new(g, TRUE) EXCEPT !.chunk = capacity]
\* what the first k calls of next_event return on such a parser
StreamWith(capacity, k) ==
    LET cs == Calls(new_with_capacity(grammar, capacity), k)
    IN [i \in 1..k |-> cs[i].ret]
\* the chunkings compared: 1..MaxChunk bytes per fill_buf and all at once
Capacities == (1..MaxChunk) \cup {Len(source) + 1}

C37_StreamIndependentOfChunking ==
    (pc = "idle" /\ ~panicked)
    => \A capacity \in Capacities : out = StreamWith(capacity, Len(out))

\* a Str terminal of two bytes was matched across a chunk boundary, and a
\* token behind a later boundary was returned
C37_Witness ==
    /\ pc = "idle"
    /\ chunk = 1
    /\ Len(source) = 3
    /\ \E i \in 1..Len(out) :
          /\ out[i].type = "Token"
          /\ out[i].kind = "Str"
          /\ Len(out[i].text) = 2
    /\ Last(out).type = "Token"
    /\ Last(out).span.start = 2

(***************************************************************************)
(* The recursive parser of runtime.rs: Parser { input, position, grammar,  *)
(* events } and its parse_rule / parse_prod.  The recursion is run on an   *)
(* explicit stack of activations, one action per arm of parse_prod; ret    *)
(* is empty when the top activation has just been called and holds the     *)
(* value a callee has just returned to it otherwise.  The run is over when *)
(* the stack is empty; into_iter then hands out events as they are.        *)
(* Event spans are (start, end) pairs; inputs are ASCII.                   *)
(***************************************************************************)
\* ParseError of runtime.rs: message and position
RuntimeError(message, position) ==
    [type |-> "Error", message |-> message, position |-> position]

\* an activation of parse_prod(prod) with its locals
Activation(prod) ==
    [fn |-> "parse_prod", prod |-> prod, start_pos |-> 0, idx |-> 0, count |-> 0]

\* parse_iter_str and Parser::new up to the call of parse_rule; Grammar.start
\* is None, so the start rule is rules[0]
parse_iter_str(g, text) ==
    LET start_rule == g.rules[1].name
        rule == get_rule(g, start_rule)
    IN [input |-> text, position |-> 0,
        events |-> IF rule # <<>> THEN <<>>
                   ELSE <<RuntimeError("start rule '" \o start_rule \o "' not found", 0)>>,
        stack |-> IF rule # <<>>
                  THEN <<[fn |-> "parse_rule", rule |-> rule[1], start_pos |-> 0]>>
                  ELSE <<>>,
        ret |-> <<>>]

\* the grammars the recursive parser is run on
RuntimeGrammars ==
    { G_AOptB, G_RefRepeat,
      \* start = "a" "b" | "a"
      [rules |-> <<Rule("start",
          PAlt(<<PSeq(<<PStr(<<"a">>), PStr(<<"b">>)>>), PStr(<<"a">>)>>))>>],
      \* start = x | 'a'; x = "a" "b"
      [rules |-> <<Rule("start", PAlt(<<PRef("x"), PChar("a")>>)),
                   Rule("x", PSeq(<<PStr(<<"a">>), PStr(<<"b">>)>>))>>],
      \* start = [a-z]+
      [rules |-> <<Rule("start", Plus(PClass(FALSE, <<>>, <<<<"a", "z">>>>)))>>],
      \* start = ('a'*)*
      [rules |-> <<Rule("start", Star(PGroup(Star(PChar("a")))))>>] }

InitRuntime ==
    /\ grammar \in RuntimeGrammars
    /\ source \in Strings(MaxInputLen)
    /\ chunk = 1
    /\ LET s == new(grammar, TRUE)
       IN /\ rd = s.rd
          /\ input = s.input
          /\ pos = s.pos
          /\ window_start = s.window_start
          /\ frames = s.frames
          /\ events = s.events
          /\ line_tracker = s.line_tracker
          /\ finished = s.finished
          /\ eof = s.eof
    /\ pc = "idle"
    /\ out = <<>>
    /\ panicked = FALSE
    /\ errors = <<>>
    /\ validated = FALSE
    /\ builder = AstBuilder_new
    /\ calls = <<>>
    /\ built = <<>>
    /\ runtime = parse_iter_str(grammar, source)

\* the activation on top of the stack
Top == Last(runtime.stack)
\* the top activation is parse_prod on a production of that type
Parses(type) ==
    /\ runtime # <<>>
    /\ runtime.stack # <<>>
    /\ Top.fn = "parse_prod"
    /\ Top.prod.type = type
\* the top activation, its locals now f, calls parse_prod(prod)
Call(r, f, prod) == [r EXCEPT !.stack = Front(@) \o <<f, Activation(prod)>>, !.ret = <<>>]
\* the top activation returns b to its caller
Ret(r, b) == [r EXCEPT !.stack = Front(@), !.ret = <<b>>]
\* self.peek_char()
peek_char(r) == IF r.position < Len(r.input) THEN <<r.input[r.position + 1]>> ELSE <<>>
\* self.advance() and the push of the Token
token(r, kind, text) ==
    [r EXCEPT !.position = @ + Len(text),
              !.events = Append(@, TokenEv(kind, text,
                                           <<r.position, r.position + Len(text)>>))]

RuntimeStep(r) ==
    /\ runtime' = r
    /\ UNCHANGED <<builder, calls, built, errors, validated, grammar, source, chunk, rd,
                   input, pos, window_start, frames, events, line_tracker, finished, eof,
                   pc, out, panicked>>

\* runtime.rs 103-121
ParseRule ==
    /\ runtime # <<>>
    /\ runtime.stack # <<>>
    /\ Top.fn = "parse_rule"
    /\ LET rule == Top.rule
       IN IF runtime.ret = <<>>
          THEN RuntimeStep(Call([runtime EXCEPT !.events = Append(@, StartEv(rule.name))],
                                [Top EXCEPT !.start_pos = runtime.position],
                                rule.production))
          ELSE IF runtime.ret[1]
               THEN RuntimeStep(Ret([runtime EXCEPT !.events = Append(@, EndEv(rule.name))],
                                    TRUE))
               ELSE RuntimeStep(Ret([runtime EXCEPT
                      !.position = Top.start_pos,
                      !.events = Append(@, RuntimeError(
                          "failed to match rule '" \o rule.name \o "'", Top.start_pos))],
                      FALSE))

\* lines 125-134
ParseSeq ==
    /\ Parses("Seq")
    /\ LET items == Top.prod.items
       IN IF runtime.ret = <<>>
          THEN IF items = <<>>
               THEN RuntimeStep(Ret(runtime, TRUE))
               ELSE RuntimeStep(Call(runtime,
                                     [Top EXCEPT !.start_pos = runtime.position, !.idx = 1],
                                     items[1]))
          ELSE IF runtime.ret[1]
               THEN IF Top.idx < Len(items)
                    THEN RuntimeStep(Call(runtime, [Top EXCEPT !.idx = @ + 1],
                                          items[Top.idx + 1]))
                    ELSE RuntimeStep(Ret(runtime, TRUE))
               ELSE RuntimeStep(Ret([runtime EXCEPT !.position = Top.start_pos], FALSE))

\* lines 136-145
ParseAlt ==
    /\ Parses("Alt")
    /\ LET alternatives == Top.prod.alts
       IN IF runtime.ret = <<>>
          THEN IF alternatives = <<>>
               THEN RuntimeStep(Ret(runtime, FALSE))
               ELSE RuntimeStep(Call(runtime,
                                     [Top EXCEPT !.start_pos = runtime.position, !.idx = 1],
                                     alternatives[1]))
          ELSE IF runtime.ret[1]
               THEN RuntimeStep(Ret(runtime, TRUE))
               ELSE LET restored == [runtime EXCEPT !.position = Top.start_pos]
                    IN IF Top.idx < Len(alternatives)
                       THEN RuntimeStep(Call(restored, [Top EXCEPT !.idx = @ + 1],
                                             alternatives[Top.idx + 1]))
                       ELSE RuntimeStep(Ret(restored, FALSE))

\* line 147
ParseGroup ==
    /\ Parses("Group")
    /\ IF runtime.ret = <<>>
       THEN RuntimeStep(Call(runtime, Top, Top.prod.inner))
       ELSE RuntimeStep(Ret(runtime, runtime.ret[1]))

\* lines 149-166.  count is a usize that, with max = None, is only ever
\* compared with min: it is counted up to min and kept there
ParseRepeat ==
    /\ Parses("Repeat")
    /\ LET quant == Top.prod.quant
           item == Top.prod.item
       IN IF runtime.ret = <<>>
          THEN RuntimeStep(Call(runtime,
                                [Top EXCEPT !.count = 0, !.start_pos = runtime.position],
                                item))
          ELSE IF runtime.ret[1]
               THEN LET count == IF quant.max = {} /\ Top.count >= quant.min
                                 THEN Top.count ELSE Top.count + 1
                    IN IF \E max \in quant.max : count >= max
                       THEN RuntimeStep(Ret(runtime, count >= quant.min))
                       ELSE RuntimeStep(Call(runtime,
                                [Top EXCEPT !.count = count,
                                            !.start_pos = runtime.position],
                                item))
               ELSE RuntimeStep(Ret([runtime EXCEPT !.position = Top.start_pos],
                                    Top.count >= quant.min))

\* lines 168-196
ParseTerminal ==
    /\ Parses("Terminal")
    /\ LET kind == Top.prod.kind
       IN IF kind.kind = "Char"
          THEN IF peek_char(runtime) = <<kind.ch>>
               THEN RuntimeStep(Ret(token(runtime, "Char", <<kind.ch>>), TRUE))
               ELSE RuntimeStep(Ret(runtime, FALSE))
          ELSE IF /\ runtime.position + Len(kind.text) <= Len(runtime.input)
                  /\ SubSeq(runtime.input, runtime.position + 1,
                            runtime.position + Len(kind.text)) = kind.text
               THEN RuntimeStep(Ret(token(runtime, "Str", kind.text), TRUE))
               ELSE RuntimeStep(Ret(runtime, FALSE))

\* lines 198-216
ParseClass ==
    /\ Parses("Class")
    /\ LET ch == peek_char(runtime)
       IN IF ch # <<>> /\ class_ok(Top.prod.class, ch[1])
          THEN RuntimeStep(Ret(token(runtime, "Class", ch), TRUE))
          ELSE RuntimeStep(Ret(runtime, FALSE))

\* lines 218-241
ParseRef ==
    /\ Parses("Ref")
    /\ LET name == Top.prod.name
           rule == get_rule(grammar, name)
       IN IF runtime.ret = <<>>
          THEN IF rule # <<>>
               THEN RuntimeStep(Call([runtime EXCEPT !.events = Append(@, StartEv(name))],
                                     [Top EXCEPT !.start_pos = runtime.position],
                                     rule[1].production))
               ELSE RuntimeStep(Ret([runtime EXCEPT !.events = Append(@, RuntimeError(
                        "undefined rule '" \o name \o "'", runtime.position))], FALSE))
          ELSE IF runtime.ret[1]
               THEN RuntimeStep(Ret([runtime EXCEPT !.events = Append(@, EndEv(name))], TRUE))
               ELSE RuntimeStep(Ret([runtime EXCEPT !.position = Top.start_pos], FALSE))

NextRuntime ==
    \/ ParseRule
    \/ ParseSeq
    \/ ParseAlt
    \/ ParseGroup
    \/ ParseRepeat
    \/ ParseTerminal
    \/ ParseClass
    \/ ParseRef

\* the recursion runs on: no call waits for something else
SpecRuntime == InitRuntime /\ [][NextRuntime]_vars /\ WF_vars(NextRuntime)

(***************************************************************************)
(* C38.  The event list parse_iter_str returns holds only events of the    *)
(* derivation that finally matched: Start and Token events pushed during   *)
(* an alternative, a repeat attempt or a rule reference that then failed   *)
(* are not in it.  So in a list without Error every Start(r) has a         *)
(* matching End(r), properly nested, and the Token spans are disjoint and  *)
(* increasing.                                                             *)
(***************************************************************************)
\* Parser::new has returned: parse_iter_str hands out the events
Returns == runtime.stack = <<>>
RECURSIVE Balanced(_, _)
\* every End closes the innermost open Start of the same rule, none stays open
Balanced(evs, open) ==
    IF evs = <<>> THEN open = <<>>
    ELSE LET e == Head(evs)
         IN CASE e.type = "Start" -> Balanced(Tail(evs), Append(open, e.rule))
              [] e.type = "End" -> /\ open # <<>>
                                   /\ Last(open) = e.rule
                                   /\ Balanced(Tail(evs), Front(open))
              [] OTHER -> Balanced(Tail(evs), open)
\* the Token events of the list returned
RuntimeTokens == SelectSeq(runtime.events, IsToken)
\* the text of the derivation: what the tokens cover, in order
Covered == Flatten([i \in 1..Len(RuntimeTokens) |-> RuntimeTokens[i].text])

C38_OnlyEventsOfTheMatch ==
    (Returns /\ ~HasError(runtime.events))
    => /\ Balanced(runtime.events, <<>>)
       /\ \A i \in 1..Len(RuntimeTokens) :
             RuntimeTokens[i].span[1] < RuntimeTokens[i].span[2]
       /\ \A i \in 1..Len(RuntimeTokens) - 1 :
             RuntimeTokens[i].span[2] <= RuntimeTokens[i + 1].span[1]
       \* the tokens are the consumed prefix of the input, nothing else
       /\ Covered = SubSeq(runtime.input, 1, runtime.position)

(***************************************************************************)
(* C39.  parse_iter_str terminates for every grammar without left          *)
(* recursion and without undefined references and every finite input,      *)
(* also for a Repeat with max = None whose item can succeed without        *)
(* consuming input, such as a starred group of 'a'* .                     *)
(***************************************************************************)
C39_ParseIterStrTerminates == <>Returns

====
